---- MODULE Spec2Model ----
(***************************************************************************)
(* Model of scripts/merge-graph.mjs (the merge/cluster pipeline) and of    *)
(* the relevance filter it shares with scripts/ingest-papers.mjs.          *)
(*                                                                         *)
(* Text is a sequence of one-character strings; the en dash is the         *)
(* character "ndash".  Numbers that are IEEE doubles in the program are    *)
(* fixed-point integers here (see Unit).                                   *)
(***************************************************************************)
EXTENDS Integers, Sequences, FiniteSets, TLC

VARIABLES
    \* the file system, the command line and the clock
    graphFile,          \* src/data/research-graph.json
    candFile,           \* src/data/ingest-candidates.json
    argK,               \* K, from --k=
    dryRun,             \* --dry-run
    clockYear,          \* new Date().getFullYear()
    \* main() of merge-graph.mjs
    pc,                 \* the step main() is at
    graph, candidates,  \* the two stores as main() read them
    relevantIngest,     \* the candidates the relevance filter let through
    allDocs, tokenized, vocab, matrix, k,
    clusterAssignments, \* result.clusters of kmeans
    raw2d, points2d,
    counts, centroids, assignments,     \* the locals of mergeSmallClusters
    mergedAssignments, mergedK,
    clusterLabelResults, points2dNeat, nodesOut, clustersOut,
    \* the libraries: what kmeans and PCA returned for the arguments seen so far
    kmeansMemo, pcaMemo,
    \* a function called on its own (isHumanAICollabRelevant, tokenize,
    \* buildVocabulary)
    filterPc,
    item,               \* the argument of the call, or the record of its arguments
    relevant,           \* the value isHumanAICollabRelevant returned
    feed,               \* the items the feeds gave ingest-papers.mjs
    \* ingest-papers.mjs: fetchPaper, fetchFeed and the feed loop of run()
    ingestPc,           \* the step ingest-papers.mjs is at
    sources,            \* feedSources()
    sourceIdx,          \* the source the feed loop is at
    attempt,            \* the attempt argument of the running fetchPaper or fetchFeed
    urlIdx,             \* the url the running fetchFeed is at
    lastError,          \* its lastError: a status, 0 for null
    answers,            \* the statuses the service answered to the running request
    sleeps,             \* the arguments of the calls of sleep, in order
    returned,           \* what the last fetchFeed returned
    fetched,            \* `candidates` of run()
    feedLog,            \* one entry per source the loop is through with
    isDryRun,           \* --dry-run on the command line of ingest-papers.mjs
    \* what the run before this one read and produced, <<>> in a first run
    prev

envVars == <<graphFile, candFile, argK, dryRun, clockYear>>
docVars == <<graph, candidates, relevantIngest, allDocs, tokenized, vocab, matrix, k>>
clusterVars == <<clusterAssignments, raw2d, points2d>>
mergeVars == <<counts, centroids, assignments, mergedAssignments, mergedK>>
outVars == <<clusterLabelResults, points2dNeat, nodesOut, clustersOut>>
libVars == <<kmeansMemo, pcaMemo>>
filterVars == <<filterPc, item, relevant, feed>>
ingestVars == <<ingestPc, sources, sourceIdx, attempt, urlIdx, lastError, answers, sleeps,
                returned, fetched, feedLog, isDryRun>>
vars == <<envVars, pc, docVars, clusterVars, mergeVars, outVars, libVars, filterVars, prev,
          ingestVars>>

-----------------------------------------------------------------------------
(* Strings *)

UpperChars == <<"A","B","C","D","E","F","G","H","I","J","K","L","M",
                "N","O","P","Q","R","S","T","U","V","W","X","Y","Z">>
LowerChars == <<"a","b","c","d","e","f","g","h","i","j","k","l","m",
                "n","o","p","q","r","s","t","u","v","w","x","y","z">>

\* String.prototype.toLowerCase, one character
LowerChar(c) ==
    IF \E i \in 1..Len(UpperChars) : UpperChars[i] = c
    THEN LowerChars[CHOOSE i \in 1..Len(UpperChars) : UpperChars[i] = c]
    ELSE c

\* String.prototype.toLowerCase
toLowerCase(s) == [i \in 1..Len(s) |-> LowerChar(s[i])]

\* does `needle` start at (1-based) position i of s
StartsAt(s, needle, i) ==
    /\ i + Len(needle) - 1 <= Len(s)
    /\ \A j \in 1..Len(needle) : s[i + j - 1] = needle[j]

\* the least of a set of positions, 0 when there is none
FirstOf(S) == IF S = {} THEN 0 ELSE CHOOSE i \in S : \A j \in S : i <= j

\* String.prototype.includes: needle starts at one of the positions of s
includes(s, needle) ==
    \E i \in 1..(Len(s) - Len(needle) + 1) : StartsAt(s, needle, i)

\* `obj.field || ""` for a string field that may be missing
StrOrEmpty(obj, field) == IF field \in DOMAIN obj THEN obj[field] ELSE <<>>

\* Math.min of two numbers
Min2(a, b) == IF a < b THEN a ELSE b

-----------------------------------------------------------------------------
(* Relevance filter *)

HUMAN_AI_PHRASES == <<
    <<"h","u","m","a","n","-","a","i">>,
    <<"h","u","m","a","n"," ","a","i">>,
    <<"h","u","m","a","n","ndash","a","i">>,
    <<"h","u","m","a","n","-","m","a","c","h","i","n","e">>,
    <<"h","u","m","a","n"," ","m","a","c","h","i","n","e">>,
    <<"h","u","m","a","n","-","a","g","e","n","t">>,
    <<"h","u","m","a","n"," ","a","g","e","n","t">>,
    <<"h","u","m","a","n"," ","i","n"," ","t","h","e"," ","l","o","o","p">>,
    <<"h","u","m","a","n","-","i","n","-","t","h","e","-","l","o","o","p">>,
    <<"h","u","m","a","n","-","A","I"," ","c","o","l","l","a","b","o","r","a","t","i","o","n">>,
    <<"h","u","m","a","n"," ","A","I"," ","c","o","l","l","a","b","o","r","a","t","i","o","n">>,
    <<"h","u","m","a","n","-","A","I"," ","t","e","a","m">>,
    <<"h","u","m","a","n"," ","A","I"," ","t","e","a","m">>,
    <<"h","u","m","a","n","-","A","I"," ","t","e","a","m","i","n","g">>,
    <<"h","u","m","a","n"," ","A","I"," ","t","e","a","m","i","n","g">>,
    <<"A","I"," ","c","o","l","l","a","b","o","r","a","t","i","o","n">>,
    <<"A","I","-","a","s","s","i","s","t","e","d">>,
    <<"A","I"," ","a","s","s","i","s","t","e","d">>,
    <<"h","u","m","a","n","-","A","I"," ","i","n","t","e","r","a","c","t","i","o","n">>,
    <<"h","u","m","a","n"," ","A","I"," ","i","n","t","e","r","a","c","t","i","o","n">>,
    <<"h","u","m","a","n","-","c","e","n","t","e","r","e","d"," ","A","I">>,
    <<"h","u","m","a","n"," ","c","e","n","t","r","e","d"," ","A","I">>,
    <<"c","o","l","l","a","b","o","r","a","t","i","v","e"," ","A","I">>,
    <<"t","e","a","m","i","n","g">>,
    <<"h","u","m","a","n"," ","c","o","m","p","u","t","e","r">>,
    <<"H","C","I">>,
    <<"a","s","s","i","s","t","i","v","e"," ","A","I">>,
    <<"c","o","o","p","e","r","a","t","i","v","e"," ","A","I">>,
    <<"m","i","x","e","d","-","i","n","i","t","i","a","t","i","v","e">>,
    <<"m","i","x","e","d"," ","i","n","i","t","i","a","t","i","v","e">> >>

\* the text the filter searches: `${item.title || ""} ${item.summary || ""}`.toLowerCase()
RelevanceText(it) ==
    toLowerCase(StrOrEmpty(it, "title") \o <<" ">> \o StrOrEmpty(it, "summary"))

\* the phrase as the filter looks for it
PhraseMutantNeedle(phrase) == phrase
PhraseNeedle(phrase) == toLowerCase(phrase)

\* HUMAN_AI_PHRASES.some((phrase) => text.includes(phrase.toLowerCase()))
SomePhrase(text) ==
    \E p \in 1..Len(HUMAN_AI_PHRASES) : includes(text, PhraseNeedle(HUMAN_AI_PHRASES[p]))

isHumanAICollabRelevant(it) == SomePhrase(RelevanceText(it))

-----------------------------------------------------------------------------
(* The relevance filter of ingest-papers.mjs *)

\* the phrase list of ingest-papers.mjs without its entry "HCI"
ingest_HUMAN_AI_PHRASES_Mutant == <<
    <<"h","u","m","a","n","-","a","i">>,
    <<"h","u","m","a","n"," ","a","i">>,
    <<"h","u","m","a","n","ndash","a","i">>,
    <<"h","u","m","a","n","-","m","a","c","h","i","n","e">>,
    <<"h","u","m","a","n"," ","m","a","c","h","i","n","e">>,
    <<"h","u","m","a","n","-","a","g","e","n","t">>,
    <<"h","u","m","a","n"," ","a","g","e","n","t">>,
    <<"h","u","m","a","n"," ","i","n"," ","t","h","e"," ","l","o","o","p">>,
    <<"h","u","m","a","n","-","i","n","-","t","h","e","-","l","o","o","p">>,
    <<"h","u","m","a","n","-","A","I"," ","c","o","l","l","a","b","o","r","a","t","i","o","n">>,
    <<"h","u","m","a","n"," ","A","I"," ","c","o","l","l","a","b","o","r","a","t","i","o","n">>,
    <<"h","u","m","a","n","-","A","I"," ","t","e","a","m">>,
    <<"h","u","m","a","n"," ","A","I"," ","t","e","a","m">>,
    <<"h","u","m","a","n","-","A","I"," ","t","e","a","m","i","n","g">>,
    <<"h","u","m","a","n"," ","A","I"," ","t","e","a","m","i","n","g">>,
    <<"A","I"," ","c","o","l","l","a","b","o","r","a","t","i","o","n">>,
    <<"A","I","-","a","s","s","i","s","t","e","d">>,
    <<"A","I"," ","a","s","s","i","s","t","e","d">>,
    <<"h","u","m","a","n","-","A","I"," ","i","n","t","e","r","a","c","t","i","o","n">>,
    <<"h","u","m","a","n"," ","A","I"," ","i","n","t","e","r","a","c","t","i","o","n">>,
    <<"h","u","m","a","n","-","c","e","n","t","e","r","e","d"," ","A","I">>,
    <<"h","u","m","a","n"," ","c","e","n","t","r","e","d"," ","A","I">>,
    <<"c","o","l","l","a","b","o","r","a","t","i","v","e"," ","A","I">>,
    <<"t","e","a","m","i","n","g">>,
    <<"h","u","m","a","n"," ","c","o","m","p","u","t","e","r">>,
    <<"a","s","s","i","s","t","i","v","e"," ","A","I">>,
    <<"c","o","o","p","e","r","a","t","i","v","e"," ","A","I">>,
    <<"m","i","x","e","d","-","i","n","i","t","i","a","t","i","v","e">>,
    <<"m","i","x","e","d"," ","i","n","i","t","i","a","t","i","v","e">> >>

ingest_HUMAN_AI_PHRASES == <<
    <<"h","u","m","a","n","-","a","i">>,
    <<"h","u","m","a","n"," ","a","i">>,
    <<"h","u","m","a","n","ndash","a","i">>,
    <<"h","u","m","a","n","-","m","a","c","h","i","n","e">>,
    <<"h","u","m","a","n"," ","m","a","c","h","i","n","e">>,
    <<"h","u","m","a","n","-","a","g","e","n","t">>,
    <<"h","u","m","a","n"," ","a","g","e","n","t">>,
    <<"h","u","m","a","n"," ","i","n"," ","t","h","e"," ","l","o","o","p">>,
    <<"h","u","m","a","n","-","i","n","-","t","h","e","-","l","o","o","p">>,
    <<"h","u","m","a","n","-","A","I"," ","c","o","l","l","a","b","o","r","a","t","i","o","n">>,
    <<"h","u","m","a","n"," ","A","I"," ","c","o","l","l","a","b","o","r","a","t","i","o","n">>,
    <<"h","u","m","a","n","-","A","I"," ","t","e","a","m">>,
    <<"h","u","m","a","n"," ","A","I"," ","t","e","a","m">>,
    <<"h","u","m","a","n","-","A","I"," ","t","e","a","m","i","n","g">>,
    <<"h","u","m","a","n"," ","A","I"," ","t","e","a","m","i","n","g">>,
    <<"A","I"," ","c","o","l","l","a","b","o","r","a","t","i","o","n">>,
    <<"A","I","-","a","s","s","i","s","t","e","d">>,
    <<"A","I"," ","a","s","s","i","s","t","e","d">>,
    <<"h","u","m","a","n","-","A","I"," ","i","n","t","e","r","a","c","t","i","o","n">>,
    <<"h","u","m","a","n"," ","A","I"," ","i","n","t","e","r","a","c","t","i","o","n">>,
    <<"h","u","m","a","n","-","c","e","n","t","e","r","e","d"," ","A","I">>,
    <<"h","u","m","a","n"," ","c","e","n","t","r","e","d"," ","A","I">>,
    <<"c","o","l","l","a","b","o","r","a","t","i","v","e"," ","A","I">>,
    <<"t","e","a","m","i","n","g">>,
    <<"h","u","m","a","n"," ","c","o","m","p","u","t","e","r">>,
    <<"H","C","I">>,
    <<"a","s","s","i","s","t","i","v","e"," ","A","I">>,
    <<"c","o","o","p","e","r","a","t","i","v","e"," ","A","I">>,
    <<"m","i","x","e","d","-","i","n","i","t","i","a","t","i","v","e">>,
    <<"m","i","x","e","d"," ","i","n","i","t","i","a","t","i","v","e">> >>

\* HUMAN_AI_PHRASES.some((phrase) => text.includes(phrase.toLowerCase()))
ingest_SomePhrase(text) ==
    \E p \in 1..Len(ingest_HUMAN_AI_PHRASES) :
        includes(text, toLowerCase(ingest_HUMAN_AI_PHRASES[p]))

\* `${item.title || ""} ${item.summary || ""}`.toLowerCase(), then the phrases
ingest_isHumanAICollabRelevant(it) ==
    ingest_SomePhrase(
        toLowerCase(StrOrEmpty(it, "title") \o <<" ">> \o StrOrEmpty(it, "summary")))

\* run(), the feed loop: `candidates.push(...relevant)`
FeedCandidates(items) == SelectSeq(items, ingest_isHumanAICollabRelevant)

-----------------------------------------------------------------------------
(* Tokenizer *)

STOP == {
    <<"a">>, <<"a","n">>, <<"t","h","e">>,
    <<"a","n","d">>, <<"o","r">>, <<"b","u","t">>,
    <<"i","n">>, <<"o","n">>, <<"a","t">>,
    <<"t","o">>, <<"f","o","r">>, <<"o","f">>,
    <<"w","i","t","h">>, <<"b","y">>, <<"f","r","o","m">>,
    <<"a","s">>, <<"i","s">>, <<"w","a","s">>,
    <<"a","r","e">>, <<"w","e","r","e">>, <<"b","e">>,
    <<"b","e","e","n">>, <<"b","e","i","n","g">>, <<"h","a","v","e">>,
    <<"h","a","s">>, <<"h","a","d">>, <<"d","o">>,
    <<"d","o","e","s">>, <<"d","i","d">>, <<"w","i","l","l">>,
    <<"w","o","u","l","d">>, <<"c","o","u","l","d">>, <<"s","h","o","u","l","d">>,
    <<"m","a","y">>, <<"m","i","g","h","t">>, <<"m","u","s","t">>,
    <<"s","h","a","l","l">>, <<"c","a","n">>, <<"n","e","e","d">>,
    <<"d","a","r","e">>, <<"o","u","g","h","t">>, <<"u","s","e","d">>,
    <<"t","h","i","s">>, <<"t","h","a","t">>, <<"t","h","e","s","e">>,
    <<"t","h","o","s","e">>, <<"i","t">>, <<"i","t","s">>,
    <<"w","e">>, <<"o","u","r">>, <<"t","h","e","y">>,
    <<"t","h","e","i","r">>, <<"n","o","t">>, <<"n","o">>,
    <<"a","l","s","o">>, <<"h","o","w","e","v","e","r">>, <<"s","u","c","h">>,
    <<"m","o","r","e">>, <<"m","o","s","t">>, <<"t","h","a","n">>,
    <<"v","e","r","y">>, <<"a","b","o","u","t">>, <<"i","n","t","o">>,
    <<"o","v","e","r">>, <<"a","f","t","e","r">>, <<"b","e","f","o","r","e">>,
    <<"b","e","t","w","e","e","n">>, <<"t","h","r","o","u","g","h">>, <<"d","u","r","i","n","g">>,
    <<"b","o","t","h">>, <<"e","a","c","h">>, <<"o","t","h","e","r">>,
    <<"s","o","m","e">>, <<"a","l","l">>, <<"a","n","y">>,
    <<"n","e","w">>, <<"f","i","r","s","t">>, <<"l","a","s","t">>,
    <<"o","n","l","y">>, <<"o","n","e">>, <<"t","w","o">>,
    <<"h","o","w">>, <<"w","h","a","t">>, <<"w","h","e","n">>,
    <<"w","h","i","c","h">>, <<"w","h","o">>, <<"u","s","i","n","g">>,
    <<"b","a","s","e","d">>, <<"a","p","p","r","o","a","c","h">>, <<"p","r","o","p","o","s","e","d">>,
    <<"r","e","s","u","l","t","s">>, <<"m","e","t","h","o","d">>, <<"m","e","t","h","o","d","s">>,
    <<"p","a","p","e","r">>, <<"s","t","u","d","y">>, <<"r","e","s","e","a","r","c","h">>,
    <<"s","h","o","w">>, <<"s","h","o","w","s">>, <<"s","h","o","w","n">>,
    <<"e","t">>, <<"a","l">>, <<"i","m","g">>,
    <<"s","r","c">>, <<"a","l","t">>, <<"d","i","v">>,
    <<"h","r","e","f">>, <<"h","t","t","p">>, <<"h","t","t","p","s">>,
    <<"w","w","w">>, <<"h","t","m","l">>, <<"c","s","s">>,
    <<"w","e","b","p">>, <<"p","n","g">>, <<"j","p","g">>,
    <<"j","p","e","g">>, <<"s","v","g">>, <<"g","i","f">>,
    <<"p","d","f">>, <<"u","r","l">>, <<"m","a","x">>,
    <<"f","o","r","m","a","t">>, <<"c","o","m">>, <<"o","r","g">>,
    <<"i","o">>, <<"n","e","t">>, <<"s","t","o","r","a","g","e">>,
    <<"g","o","o","g","l","e","a","p","i","s">>, <<"g","w","e","b">>, <<"u","n","i","b","l","o","g">>,
    <<"p","u","b","l","i","s","h">>, <<"p","r","o","d">>, <<"i","m","a","g","e","s">>,
    <<"g","p","t">>, <<"c","o","d","e","x">>, <<"o","p","e","n","a","i">>,
    <<"g","o","o","g","l","e">>, <<"m","i","c","r","o","s","o","f","t">>, <<"m","e","t","a">>,
    <<"g","i","t","h","u","b">>, <<"a","r","x","i","v">>, <<"d","o","i">>,
    <<"c","h","a","t","g","p","t">>, <<"g","e","m","i","n","i">>, <<"c","l","a","u","d","e">>,
    <<"l","l","a","m","a">>, <<"a","n","t","h","r","o","p","i","c">>, <<"d","e","e","p","m","i","n","d">>,
    <<"i","n","t","r","o","d","u","c","i","n","g">>, <<"a","n","n","o","u","n","c","i","n","g">>, <<"l","a","u","n","c","h","e","d">>,
    <<"r","e","l","e","a","s","e","d">>, <<"u","p","d","a","t","e">>, <<"u","p","d","a","t","e","s">>,
    <<"b","l","o","g">>, <<"p","o","s","t">>, <<"a","r","t","i","c","l","e">>,
    <<"r","e","p","o","r","t">>, <<"p","r","e","s","s">>, <<"s","y","s","t","e","m">>,
    <<"s","y","s","t","e","m","s">>, <<"m","o","d","e","l">>, <<"m","o","d","e","l","s">>,
    <<"d","a","t","a">>, <<"a","n","a","l","y","s","i","s">>, <<"i","n","f","o","r","m","a","t","i","o","n">>,
    <<"a","v","a","i","l","a","b","l","e">>, <<"a","c","c","e","s","s">>, <<"u","s","e">>,
    <<"e","n","a","b","l","e">>, <<"f","e","a","t","u","r","e","s">>, <<"f","e","a","t","u","r","e">>,
    <<"t","o","o","l","s">>, <<"t","o","o","l">>, <<"u","s","e","r","s">>,
    <<"a","p","p","l","i","c","a","t","i","o","n","s">>, <<"a","p","p","l","i","c","a","t","i","o","n">>, <<"p","l","a","t","f","o","r","m">>,
    <<"s","e","r","v","i","c","e">>, <<"s","e","r","v","i","c","e","s">>, <<"i","m","a","g","e">>,
    <<"v","i","d","e","o">>, <<"t","e","x","t">>, <<"c","o","n","t","e","n","t">>,
    <<"g","e","n","e","r","a","t","e">>, <<"g","e","n","e","r","a","t","i","o","n">>, <<"l","a","n","g","u","a","g","e">>,
    <<"l","a","r","g","e">>, <<"f","r","o","n","t","i","e","r">>, <<"e","n","t","e","r","p","r","i","s","e">>,
    <<"t","r","a","n","s","f","o","r","m">>, <<"t","r","a","n","s","f","o","r","m","e","r">>, <<"i","e">>,
    <<"e","g">>, <<"c","f">>, <<"v","s">>,
    <<"e","t","c">>, <<"f","i","g">>, <<"r","e">>,
    <<"p","r","e">>, <<"n","o","n">>, <<"c","o","m","m","u","n","i","t","y">>,
    <<"c","o","m","m","u","n","i","t","i","e","s">>, <<"c","o","u","n","t","r","i","e","s">>, <<"r","e","v","i","e","w">>,
    <<"r","e","v","i","e","w","s">>, <<"w","o","r","l","d">>, <<"p","e","o","p","l","e">>,
    <<"l","a","t","e","s","t">>, <<"t","o","d","a","y">>, <<"y","e","a","r">>,
    <<"y","e","a","r","s">>, <<"w","o","r","k">>, <<"w","o","r","k","i","n","g">>,
    <<"w","o","r","k","s">>, <<"m","a","k","i","n","g">>, <<"m","a","d","e">>,
    <<"m","a","k","e">>, <<"w","a","y">>, <<"w","a","y","s">>,
    <<"t","h","i","n","g","s">>, <<"t","h","i","n","g">>, <<"p","a","r","t">>,
    <<"t","i","m","e">>, <<"d","i","f","f","e","r","e","n","t">>, <<"i","m","p","o","r","t","a","n","t">>,
    <<"p","o","s","s","i","b","l","e">>, <<"p","o","t","e","n","t","i","a","l">>, <<"h","e","l","p">>,
    <<"h","e","l","p","s">>, <<"h","e","l","p","i","n","g">>, <<"n","e","e","d","s">>,
    <<"a","c","r","o","s","s">>, <<"m","a","n","y">>, <<"w","e","l","l">>,
    <<"l","i","k","e">>, <<"j","u","s","t">>, <<"e","v","e","n">>,
    <<"s","t","i","l","l">>, <<"h","i","g","h">>, <<"l","o","w">>,
    <<"b","e","s","t">>, <<"b","e","t","t","e","r">>, <<"a","b","l","e">> }

IsSpace(c) == c \in {" ", "\t", "\n"}
IsAlnum(c) ==
    c \in {"a","b","c","d","e","f","g","h","i","j","k","l","m","n","o","p","q",
           "r","s","t","u","v","w","x","y","z","0","1","2","3","4","5","6","7",
           "8","9"}

\* the position of the first ">" at or after position i of s, 0 when there is none
FirstGt(s, i) == FirstOf({j \in i..Len(s) : s[j] = ">"})

\* the start of the leftmost match of /<[^>]+>/ at or after position i of s,
\* 0 when there is none
TagStart(s, i) ==
    FirstOf({j \in i..Len(s) : s[j] = "<" /\ FirstGt(s, j + 1) > j + 1})

\* .replace(/<[^>]+>/g, " ") from position i on, one match after the other
RECURSIVE StripTagsFrom(_, _)
StripTagsFrom(s, i) ==
    IF TagStart(s, i) = 0 THEN SubSeq(s, i, Len(s))
    ELSE SubSeq(s, i, TagStart(s, i) - 1) \o <<" ">>
         \o StripTagsFrom(s, FirstGt(s, TagStart(s, i) + 1) + 1)

\* the position of the first whitespace character at or after position i of
\* s, and of the first other character; 0 when there is none
NextSpace(s, i) == FirstOf({j \in i..Len(s) : IsSpace(s[j])})
NextNonSpace(s, i) == FirstOf({j \in i..Len(s) : ~IsSpace(s[j])})

\* the position after the run of non-whitespace characters starting at i
EndOfNonSpace(s, i) == IF NextSpace(s, i) = 0 THEN Len(s) + 1 ELSE NextSpace(s, i)

\* the length of a match of /https?:\/\/\S+/ at position i of s, 0 when there is none
UrlMatchLen(s, i) ==
    LET http == <<"h","t","t","p">>
        sep  == <<":","/","/">>
        afterScheme ==
            IF StartsAt(s, http \o <<"s">> \o sep, i) THEN i + 8
            ELSE IF StartsAt(s, http \o sep, i) THEN i + 7
            ELSE 0
    IN  IF afterScheme = 0 THEN 0
        ELSE IF EndOfNonSpace(s, afterScheme) = afterScheme THEN 0
        ELSE EndOfNonSpace(s, afterScheme) - i

\* the start of the leftmost match of /https?:\/\/\S+/ at or after position
\* i of s, 0 when there is none
UrlStart(s, i) == FirstOf({j \in i..Len(s) : UrlMatchLen(s, j) > 0})

\* .replace(/https?:\/\/\S+/g, " ") from position i on, one match after the other
RECURSIVE StripUrlsFrom(_, _)
StripUrlsFrom(s, i) ==
    IF UrlStart(s, i) = 0 THEN SubSeq(s, i, Len(s))
    ELSE SubSeq(s, i, UrlStart(s, i) - 1) \o <<" ">>
         \o StripUrlsFrom(s, UrlStart(s, i) + UrlMatchLen(s, UrlStart(s, i)))

\* what follows a run of whitespace that starts at position p of s: the
\* position of the next other character, Len(s) + 1 when the run ends s
AfterSpaces(s, p) ==
    IF NextNonSpace(s, p) = 0 THEN Len(s) + 1 ELSE NextNonSpace(s, p)

\* .replace(/\s+/g, " ") from position i on, one run of whitespace after
\* the other
RECURSIVE CollapseSpacesFrom(_, _)
CollapseSpacesFrom(s, i) ==
    IF NextSpace(s, i) = 0 THEN SubSeq(s, i, Len(s))
    ELSE SubSeq(s, i, NextSpace(s, i) - 1) \o <<" ">>
         \o CollapseSpacesFrom(s, AfterSpaces(s, NextSpace(s, i)))

\* .replace(/[^a-z0-9\s]/g, " ")
BlankNonAlnum(s) ==
    [i \in 1..Len(s) |-> IF IsAlnum(s[i]) \/ IsSpace(s[i]) THEN s[i] ELSE " "]

\* .split(/\s+/): the pieces between the runs of whitespace, the empty
\* piece before a leading and after a trailing run included
RECURSIVE SplitFrom(_, _)
SplitFrom(s, i) ==
    IF NextSpace(s, i) = 0 THEN <<SubSeq(s, i, Len(s))>>
    ELSE <<SubSeq(s, i, NextSpace(s, i) - 1)>>
         \o SplitFrom(s, AfterSpaces(s, NextSpace(s, i)))

SplitSpaces(s) == SplitFrom(s, 1)

\* the filter of tokenize: `t.length > 1 && !STOP.has(t)`
KeepToken(t) == Len(t) > 1 /\ t \notin STOP

tokenize(text) ==
    IF text = <<>> THEN <<>>
    ELSE SelectSeq(
           SplitSpaces(
             BlankNonAlnum(
               CollapseSpacesFrom(
                 toLowerCase(StripUrlsFrom(StripTagsFrom(text, 1), 1)), 1))),
           KeepToken)

\* tokenize called with any value: line 73 returns [] for what is not a string
tokenizeArg(v) == IF v.typeof # "string" THEN <<>> ELSE tokenize(v.value)

-----------------------------------------------------------------------------
(* TF-IDF *)

maxVocab == 600

\* is t one of the elements of the sequence s
InSeq(t, s) == \E i \in 1..Len(s) : s[i] = t

\* the tokens of all documents, in corpus order
RECURSIVE Flatten(_)
Flatten(docs) == IF docs = <<>> THEN <<>> ELSE Head(docs) \o Flatten(Tail(docs))

\* acc followed by the elements of s that are not in acc
AppendNew(acc, s) == acc \o SelectSeq(s, LAMBDA t : ~InSeq(t, acc))

\* the distinct elements of s[lo..hi] in the order of their first occurrence
RECURSIVE FirstSeenIn(_, _, _)
FirstSeenIn(s, lo, hi) ==
    IF lo > hi THEN <<>>
    ELSE IF lo = hi THEN <<s[lo]>>
    ELSE AppendNew(FirstSeenIn(s, lo, (lo + hi) \div 2),
                   FirstSeenIn(s, (lo + hi) \div 2 + 1, hi))

\* the distinct elements of s in the order of their first occurrence: the
\* insertion order of the keys of a Map
FirstSeen(s) == FirstSeenIn(s, 1, Len(s))

\* df.get(t): the number of documents that contain t
DocFreq(docs, t) == Cardinality({d \in 1..Len(docs) : InSeq(t, docs[d])})

\* [...df.entries()]: the pairs [t, df.get(t)]
DfEntries(docs, terms) ==
    [i \in 1..Len(terms) |-> <<terms[i], DocFreq(docs, terms[i])>>]

\* the pairs of a list whose second component is above, at, below v, in
\* the order of the list
Above(pairs, v) == SelectSeq(pairs, LAMBDA e : e[2] > v)
Level(pairs, v) == SelectSeq(pairs, LAMBDA e : e[2] = v)
Below(pairs, v) == SelectSeq(pairs, LAMBDA e : e[2] < v)

\* .sort((a, b) => b[1] - a[1]): the pairs by descending second component,
\* equal ones in the order they had (the sort is stable)
RECURSIVE SortDesc(_)
SortAround(pairs, v) ==
    SortDesc(Above(pairs, v)) \o Level(pairs, v) \o SortDesc(Below(pairs, v))

SortDesc(pairs) ==
    IF Len(pairs) <= 1 THEN pairs
    ELSE SortAround(pairs, pairs[(Len(pairs) + 1) \div 2][2])

\* the number of occurrences of t in tokens
TermCount(tokens, t) == Cardinality({i \in 1..Len(tokens) : tokens[i] = t})

\* a vocabulary ranked by the number of occurrences in the corpus
buildVocabularyMutant(docs, maxTerms) ==
    LET terms == FirstSeen(Flatten(docs))
        sorted == SortDesc([i \in 1..Len(terms) |->
                              <<terms[i], TermCount(Flatten(docs), terms[i])>>])
    IN  [r \in 1..Min2(Len(sorted), maxTerms) |-> sorted[r][1]]

buildVocabulary(docs, maxTerms) ==
    LET sorted == SortDesc(DfEntries(docs, FirstSeen(Flatten(docs))))
    IN  [r \in 1..Min2(Len(sorted), maxTerms) |-> sorted[r][1]]

\* Math.log(v) in thousandths, v = 1..12
LnMilli == <<0, 693, 1099, 1386, 1609, 1792, 1946, 2079, 2197, 2303, 2398, 2485>>

\* the idf without its `+ 1`
IdfMutant(N, n) == LnMilli[N + 1] - LnMilli[n + 1]

\* Math.log((N + 1) / (n + 1)) + 1, in thousandths
Idf(N, n) == LnMilli[N + 1] - LnMilli[n + 1] + 1000

\* a matrix with add-one smoothing of the term counts
tfIdfMatrixMutant(docs, vocabulary) ==
    LET N == Len(docs)
        idf == [i \in 1..Len(vocabulary) |-> Idf(N, DocFreq(docs, vocabulary[i]))]
    IN  [d \in 1..Len(docs) |->
            [i \in 1..Len(vocabulary) |->
                ((TermCount(docs[d], vocabulary[i]) + 1) * idf[i])
                    \div (IF Len(docs[d]) = 0 THEN 1 ELSE Len(docs[d]))]]

\* tfIdfMatrix: entries in thousandths
tfIdfMatrix(docs, vocabulary) ==
    LET N == Len(docs)
        idf == [i \in 1..Len(vocabulary) |-> Idf(N, DocFreq(docs, vocabulary[i]))]
    IN  [d \in 1..Len(docs) |->
            [i \in 1..Len(vocabulary) |->
                (TermCount(docs[d], vocabulary[i]) * idf[i])
                    \div (IF Len(docs[d]) = 0 THEN 1 ELSE Len(docs[d]))]]

-----------------------------------------------------------------------------
(* Numbers *)

\* Coordinates are IEEE doubles in the program; here they are fixed-point
\* integers counting 1/Unit of a viewBox unit (divisions round down).
Unit == 30

Px(v) == v * Unit

RECURSIVE SeqSum(_)
SeqSum(s) == IF s = <<>> THEN 0 ELSE Head(s) + SeqSum(Tail(s))

\* Math.min(...xs), Math.max(...xs) of a non-empty list
MinOf(s) == CHOOSE v \in {s[i] : i \in 1..Len(s)} : \A j \in 1..Len(s) : v <= s[j]
MaxOf(s) == CHOOSE v \in {s[i] : i \in 1..Len(s)} : \A j \in 1..Len(s) : v >= s[j]

\* the indices i (ascending) of the documents with a[i] = c
Members(a, c) == {i \in 1..Len(a) : a[i] = c}

RECURSIVE SumOver(_, _, _)
SumOver(pts, idx, axis) ==
    IF idx = {} THEN 0
    ELSE LET i == CHOOSE j \in idx : TRUE
         IN  pts[i][axis] + SumOver(pts, idx \ {i}, axis)

-----------------------------------------------------------------------------
(* Viewport scaling *)

viewBox == [xMin |-> 80, yMin |-> 60, xMax |-> 920, yMax |-> 640]

\* `maxX - minX || 1`
RangeOrOne(lo, hi) == IF hi - lo = 0 THEN 1 ELSE hi - lo

scaleToViewBox(points) ==
    LET xs == [i \in 1..Len(points) |-> points[i][1]]
        ys == [i \in 1..Len(points) |-> points[i][2]]
        minX == MinOf(xs)
        maxX == MaxOf(xs)
        minY == MinOf(ys)
        maxY == MaxOf(ys)
        rangeX == RangeOrOne(minX, maxX)
        rangeY == RangeOrOne(minY, maxY)
    IN  [i \in 1..Len(points) |->
            << Px(viewBox.xMin)
                 + ((points[i][1] - minX) * Px(viewBox.xMax - viewBox.xMin)) \div rangeX,
               Px(viewBox.yMin)
                 + ((points[i][2] - minY) * Px(viewBox.yMax - viewBox.yMin)) \div rangeY >>]

-----------------------------------------------------------------------------
(* Small-cluster merging *)

MIN_CLUSTER_SIZE == 3

\* `Math.max(...clusterAssignments) + 1`
ClusterCount(a) == MaxOf(a) + 1

\* counts[c] after the counting loop
CountsOf(a, kk) == [c \in 0..(kk - 1) |-> Cardinality(Members(a, c))]

\* centroids[c] after the two loops: the mean of the members' positions,
\* [0, 0] for a cluster without members
CentroidsOf(pts, a, kk) ==
    [c \in 0..(kk - 1) |->
        LET m == Members(a, c)
        IN  IF m = {} THEN <<0, 0>>
            ELSE << SumOver(pts, m, 1) \div Cardinality(m),
                    SumOver(pts, m, 2) \div Cardinality(m) >>]

\* counts.findIndex((cnt, c) => cnt > 0 && cnt < minSize), -1 when there is none
IsSmall(cnt, minSize) == cnt > 0 /\ cnt < minSize

\* a findIndex that passes over the clusters of one member
SmallIndexMutant(cnts, minSize) ==
    LET small == {c \in DOMAIN cnts : cnts[c] > 1 /\ cnts[c] < minSize}
    IN  IF small = {} THEN -1
        ELSE CHOOSE c \in small : \A c2 \in small : c <= c2

SmallIndex(cnts, minSize) ==
    LET small == {c \in DOMAIN cnts : IsSmall(cnts[c], minSize)}
    IN  IF small = {} THEN -1
        ELSE CHOOSE c \in small : \A c2 \in small : c <= c2

SqDist(p, q) ==
    LET dx == q[1] - p[1]
        dy == q[2] - p[2]
    IN  dx * dx + dy * dy

\* the scan for the nearest other non-empty cluster: the first of the
\* clusters at the least distance (`d < minDist`), -1 when there is none
NearestIndex(cents, cnts, small) ==
    LET others == {c2 \in DOMAIN cnts : c2 # small /\ cnts[c2] # 0}
        d(c2) == SqDist(cents[small], cents[c2])
    IN  IF others = {} THEN -1
        ELSE CHOOSE c \in others :
                 /\ \A c2 \in others : d(c) <= d(c2)
                 /\ \A c2 \in others : d(c2) = d(c) => c <= c2

\* the surviving clusters numbered from 0 in index order
OldToNewMutant(cnts) == [c \in {c2 \in DOMAIN cnts : cnts[c2] > 0} |-> c]
OldToNew(cnts) ==
    [c \in {c2 \in DOMAIN cnts : cnts[c2] > 0} |->
        Cardinality({c2 \in DOMAIN cnts : cnts[c2] > 0 /\ c2 < c})]

-----------------------------------------------------------------------------
(* Neat composition *)

\* cos and sin of (2 * PI * ringIndex) / ringN - PI / 2, in thousandths,
\* for the rings of up to four clusters
RingCos(ringIndex, ringN) ==
    CASE ringN = 1 -> 0
      [] ringN = 2 -> 0
      [] ringN = 3 -> <<0, 866, -866>>[ringIndex + 1]
      [] ringN = 4 -> <<0, 1000, 0, -1000>>[ringIndex + 1]

RingSin(ringIndex, ringN) ==
    CASE ringN = 1 -> -1000
      [] ringN = 2 -> <<-1000, 1000>>[ringIndex + 1]
      [] ringN = 3 -> <<-1000, 500, 500>>[ringIndex + 1]
      [] ringN = 4 -> <<-1000, 0, 1000, 0>>[ringIndex + 1]

\* targetPositions[i]
TargetPosition(i, kk) ==
    LET centerX == Px(viewBox.xMin + viewBox.xMax) \div 2
        centerY == Px(viewBox.yMin + viewBox.yMax) \div 2
        spanX == Px(viewBox.xMax - viewBox.xMin)
        spanY == Px(viewBox.yMax - viewBox.yMin)
        floorK == (kk * 35) \div 100
        innerCount == IF floorK > 1 THEN floorK ELSE 1
        outerCount == kk - innerCount
        onInner == i < innerCount
        ringN == IF onInner THEN innerCount ELSE outerCount
        ringStart == IF onInner THEN 0 ELSE innerCount
        ringIndex == i - ringStart
        rx == IF onInner THEN (spanX * 22) \div 100 ELSE (spanX * 45) \div 100
        ry == IF onInner THEN (spanY * 22) \div 100 ELSE (spanY * 45) \div 100
    IN  << centerX + (rx * RingCos(ringIndex, ringN)) \div 1000,
           centerY + (ry * RingSin(ringIndex, ringN)) \div 1000 >>

\* spreadScale * v, spreadScale = 0.48
Spread(v) == (48 * v) \div 100

applyNeatComposition(pts, a, kk) ==
    LET centerX == Px(viewBox.xMin + viewBox.xMax) \div 2
        centerY == Px(viewBox.yMin + viewBox.yMax) \div 2
        cent == [c \in 0..(kk - 1) |->
                    LET m == Members(a, c)
                    IN  IF m = {} THEN <<centerX, centerY>>
                        ELSE << SumOver(pts, m, 1) \div Cardinality(m),
                                SumOver(pts, m, 2) \div Cardinality(m) >>]
    IN  [i \in 1..Len(pts) |->
            LET c == a[i]
                t == TargetPosition(c, kk)
            IN  << t[1] + Spread(pts[i][1] - cent[c][1]),
                   t[2] + Spread(pts[i][2] - cent[c][2]) >>]

-----------------------------------------------------------------------------
(* Documents *)

\* `cluster-${n}`
ClusterId(n) == <<"cluster-", n>>

\* `${obj.field}` for a string field: the text "undefined" when it is missing
\* (a document keeps its title as the template literals render it)
Template(obj, field) ==
    IF field \in DOMAIN obj THEN obj[field] ELSE <<"u","n","d","e","f","i","n","e","d">>

\* a conversion that keeps of the node what the document is made of
graphNodeToDocMutant(node) ==
    [id |-> node.id,
     title |-> Template(node, "title"),
     summary |-> StrOrEmpty(node, "summary"),
     source |-> IF "source" \in DOMAIN node THEN node.source ELSE "research",
     origin |-> "graph",
     payload |-> [id |-> node.id,
                  title |-> Template(node, "title"),
                  summary |-> StrOrEmpty(node, "summary")]]

graphNodeToDoc(node) ==
    [id |-> node.id,
     title |-> Template(node, "title"),
     summary |-> StrOrEmpty(node, "summary"),
     source |-> IF "source" \in DOMAIN node THEN node.source ELSE "research",
     origin |-> "graph",
     payload |-> node]

LEVER_KEYWORDS == <<
    [name |-> <<"w","o","r","k","f","l","o","w">>,
     keywords |-> <<<<"w","o","r","k","f","l","o","w">>,
                   <<"p","r","o","c","e","s","s">>,
                   <<"p","i","p","e","l","i","n","e">>,
                   <<"d","e","l","e","g","a","t","i","o","n">>,
                   <<"t","a","s","k"," ","a","l","l","o","c","a","t","i","o","n">>>>],
    [name |-> <<"r","o","l","e">>,
     keywords |-> <<<<"r","o","l","e">>,
                   <<"t","e","a","m","m","a","t","e">>,
                   <<"a","g","e","n","t">>,
                   <<"h","u","m","a","n","-","i","n","-","t","h","e","-","l","o","o","p">>,
                   <<"d","i","v","i","s","i","o","n"," ","o","f"," ","l","a","b","o","r">>>>],
    [name |-> <<"r","i","t","u","a","l">>,
     keywords |-> <<<<"r","i","t","u","a","l">>,
                   <<"o","n","b","o","a","r","d","i","n","g">>,
                   <<"m","e","e","t","i","n","g">>,
                   <<"c","a","d","e","n","c","e">>,
                   <<"f","e","e","d","b","a","c","k"," ","l","o","o","p">>>>],
    [name |-> <<"c","a","p","a","b","i","l","i","t","y","_","b","o","u","n","d","a","r","y">>,
     keywords |-> <<<<"c","a","p","a","b","i","l","i","t","y">>,
                   <<"b","o","u","n","d","a","r","y">>,
                   <<"a","u","t","o","m","a","t","i","o","n">>,
                   <<"h","u","m","a","n"," ","o","v","e","r","s","i","g","h","t">>>>],
    [name |-> <<"i","n","t","e","r","f","a","c","e">>,
     keywords |-> <<<<"i","n","t","e","r","f","a","c","e">>,
                   <<"t","r","a","n","s","p","a","r","e","n","c","y">>,
                   <<"e","x","p","l","a","i","n","a","b","i","l","i","t","y">>,
                   <<"t","r","u","s","t">>,
                   <<"c","a","l","i","b","r","a","t","i","o","n">>>>],
    [name |-> <<"g","o","v","e","r","n","a","n","c","e">>,
     keywords |-> <<<<"g","o","v","e","r","n","a","n","c","e">>,
                   <<"p","o","l","i","c","y">>,
                   <<"e","t","h","i","c","s">>,
                   <<"a","c","c","o","u","n","t","a","b","i","l","i","t","y">>,
                   <<"f","a","i","r","n","e","s","s">>>>] >>

INTENT_KEYWORDS == <<
    [name |-> <<"t","e","a","m","_","s","t","r","u","c","t","u","r","e">>,
     keywords |-> <<<<"t","e","a","m">>,
                   <<"t","e","a","m","i","n","g">>,
                   <<"c","o","l","l","a","b","o","r","a","t","i","o","n">>,
                   <<"s","t","r","u","c","t","u","r","e">>>>],
    [name |-> <<"w","o","r","k","f","l","o","w","_","r","e","d","e","s","i","g","n">>,
     keywords |-> <<<<"w","o","r","k","f","l","o","w">>,
                   <<"r","e","d","e","s","i","g","n">>,
                   <<"p","r","o","c","e","s","s">>>>],
    [name |-> <<"r","o","l","e","_","d","e","f","i","n","i","t","i","o","n">>,
     keywords |-> <<<<"r","o","l","e">>,
                   <<"d","e","l","e","g","a","t","i","o","n">>,
                   <<"a","g","e","n","t">>>>],
    [name |-> <<"r","i","t","u","a","l","_","d","e","s","i","g","n">>,
     keywords |-> <<<<"r","i","t","u","a","l">>,
                   <<"o","n","b","o","a","r","d","i","n","g">>,
                   <<"f","e","e","d","b","a","c","k">>>>],
    [name |-> <<"t","o","o","l","i","n","g","_","s","e","l","e","c","t","i","o","n">>,
     keywords |-> <<<<"t","o","o","l">>,
                   <<"i","n","t","e","r","f","a","c","e">>,
                   <<"s","y","s","t","e","m">>>>],
    [name |-> <<"g","o","v","e","r","n","a","n","c","e","_","p","o","l","i","c","y">>,
     keywords |-> <<<<"g","o","v","e","r","n","a","n","c","e">>,
                   <<"p","o","l","i","c","y">>,
                   <<"e","t","h","i","c","s">>>>],
    [name |-> <<"l","e","a","r","n","i","n","g","_","u","p","s","k","i","l","l","i","n","g">>,
     keywords |-> <<<<"l","e","a","r","n","i","n","g">>,
                   <<"t","r","a","i","n","i","n","g">>,
                   <<"u","p","s","k","i","l","l","i","n","g">>,
                   <<"s","k","i","l","l">>>>] >>

\* the names of the entries of `table` one of whose keywords occurs in text,
\* in the order of the table
RECURSIVE MatchingNames(_, _, _)
MatchingNames(table, text, i) ==
    IF i > Len(table) THEN <<>>
    ELSE (IF \E j \in 1..Len(table[i].keywords) : includes(text, table[i].keywords[j])
          THEN <<table[i].name>> ELSE <<>>)
         \o MatchingNames(table, text, i + 1)

IsTerminator(c) == c \in {".", "?", "!"}

\* the position of the first of . ? ! at or after position i of s, 0 when there is none
FirstTerminator(s, i) == FirstOf({j \in i..Len(s) : IsTerminator(s[j])})

\* the end of a match of /how (?:might|should|do|can)[^.?!]+[.?!]/ that
\* starts at position i of s, 0 when there is none
QuestionEnd(s, i) ==
    LET how == <<"h","o","w"," ">>
        alts == <<<<"m","i","g","h","t">>, <<"s","h","o","u","l","d">>, <<"d","o">>, <<"c","a","n">>>>
        hit == {a \in 1..Len(alts) : StartsAt(s, how \o alts[a], i)}
        body == i + Len(how) + Len(alts[CHOOSE a \in hit : TRUE])
    IN  IF hit = {} THEN 0
        ELSE IF FirstTerminator(s, body) > body THEN FirstTerminator(s, body)
        ELSE 0

\* text.match(...)[1]: the leftmost match, <<>> when there is none
QuestionAt(s, p) == IF p = 0 THEN <<>> ELSE SubSeq(s, p, QuestionEnd(s, p))

QuestionFrom(s, i) == QuestionAt(s, FirstOf({j \in i..Len(s) : QuestionEnd(s, j) > 0}))

\* String.prototype.trim
RECURSIVE Trim(_)
Trim(s) ==
    IF s = <<>> THEN s
    ELSE IF IsSpace(Head(s)) THEN Trim(Tail(s))
    ELSE IF IsSpace(s[Len(s)]) THEN Trim(SubSeq(s, 1, Len(s) - 1))
    ELSE s

\* .replace(/_/g, " ")
UnderscoresToSpaces(s) == [i \in 1..Len(s) |-> IF s[i] = "_" THEN " " ELSE s[i]]

inferDesignMetadata(title, summary) ==
    LET text == toLowerCase(title \o <<" ">> \o summary)
        designLevers == MatchingNames(LEVER_KEYWORDS, text, 1)
        designerIntents == MatchingNames(INTENT_KEYWORDS, text, 1)
        asked == \/ includes(text, <<"h","o","w"," ","m","i","g","h","t">>)
                 \/ includes(text, <<"h","o","w"," ","s","h","o","u","l","d">>)
                 \/ includes(text, <<"h","o","w"," ","d","o"," ">>)
        matched == IF asked THEN Trim(QuestionFrom(text, 1)) ELSE <<>>
        designQuestion ==
            IF matched # <<>> THEN matched
            ELSE IF Len(designLevers) > 0
                 THEN <<"H","o","w"," ","m","i","g","h","t"," ","d","e","s","i","g","n"," ","s","u","p","p","o","r","t"," ">>
                      \o UnderscoresToSpaces(designLevers[1])
                      \o <<" ","i","n"," ","h","u","m","a","n","-","A","I"," ","c","o","l","l","a","b","o","r","a","t","i","o","n","?">>
                 ELSE <<>>
    IN  [designLevers |-> designLevers,
         designerIntents |-> designerIntents,
         designQuestion |-> designQuestion]

IsDigit(c) == c \in {"0","1","2","3","4","5","6","7","8","9"}
DigitValue(c) == CHOOSE v \in 0..9 : <<"0","1","2","3","4","5","6","7","8","9">>[v + 1] = c

\* Number(String(publishedAt).match(/\d{4}/)[0]): the first four digits in
\* a row read as a number, -1 when there are none
RECURSIVE YearFrom(_, _)
YearFrom(s, i) ==
    IF i + 3 > Len(s) THEN -1
    ELSE IF \A j \in 0..3 : IsDigit(s[i + j])
         THEN 1000 * DigitValue(s[i]) + 100 * DigitValue(s[i + 1])
              + 10 * DigitValue(s[i + 2]) + DigitValue(s[i + 3])
         ELSE YearFrom(s, i + 1)

\* `yearMatch ? Number(yearMatch[0]) : new Date().getFullYear()`
PublishedYear(it, now) ==
    IF "publishedAt" \in DOMAIN it /\ YearFrom(it.publishedAt, 1) # -1
    THEN YearFrom(it.publishedAt, 1)
    ELSE now

ingestItemToDoc(it, now) ==
    LET inferred == inferDesignMetadata(StrOrEmpty(it, "title"), StrOrEmpty(it, "summary"))
    IN  [id |-> it.id,
         title |-> Template(it, "title"),
         summary |-> StrOrEmpty(it, "summary"),
         source |-> IF "source" \in DOMAIN it THEN it.source ELSE "industry",
         origin |-> "ingest",
         payload |->
            [id |-> it.id,
             title |-> it.title,
             authors |-> "Various",
             year |-> PublishedYear(it, now),
             url |-> IF "url" \in DOMAIN it THEN it.url ELSE "",
             summary |-> StrOrEmpty(it, "summary"),
             source |-> IF "source" \in DOMAIN it THEN it.source ELSE "industry",
             designLevers |-> inferred.designLevers,
             designerIntents |-> inferred.designerIntents,
             designQuestion |-> inferred.designQuestion,
             tags |-> IF "tags" \in DOMAIN it THEN it.tags ELSE <<>>]]

-----------------------------------------------------------------------------
(* Cluster labels *)

LABEL_THEME_TERMS == {
    <<"c","o","l","l","a","b","o","r","a","t","i","o","n">>, <<"t","e","a","m">>, <<"t","e","a","m","i","n","g">>,
    <<"t","r","u","s","t">>, <<"d","e","l","e","g","a","t","i","o","n">>, <<"c","o","m","m","u","n","i","c","a","t","i","o","n">>,
    <<"l","e","a","r","n","i","n","g">>, <<"a","s","s","i","s","t","i","v","e">>, <<"i","n","t","e","r","a","c","t","i","o","n">>,
    <<"a","g","e","n","t","s">>, <<"a","g","e","n","t">>, <<"d","e","c","i","s","i","o","n">>,
    <<"s","u","p","p","o","r","t">>, <<"d","e","s","i","g","n">>, <<"t","r","a","n","s","p","a","r","e","n","c","y">>,
    <<"e","t","h","i","c","s">>, <<"e","x","p","l","a","i","n","a","b","i","l","i","t","y">>, <<"c","o","n","t","r","o","l">>,
    <<"a","u","t","o","m","a","t","i","o","n">>, <<"c","o","o","r","d","i","n","a","t","i","o","n">>, <<"m","i","x","e","d">>,
    <<"i","n","i","t","i","a","t","i","v","e">>, <<"c","o","o","p","e","r","a","t","i","v","e">>, <<"p","a","r","t","n","e","r","s","h","i","p">>,
    <<"f","e","e","d","b","a","c","k">>, <<"c","a","l","i","b","r","a","t","i","o","n">>, <<"r","o","b","o","t">>,
    <<"r","o","b","o","t","i","c","s">>, <<"a","u","t","o","n","o","m","y">>, <<"o","v","e","r","s","i","g","h","t">>,
    <<"s","a","f","e","t","y">>, <<"w","o","r","k","f","l","o","w">>, <<"a","c","c","o","u","n","t","a","b","i","l","i","t","y">>,
    <<"f","a","i","r","n","e","s","s">> }

\* `LABEL_THEME_TERMS.has(term) ? 1.6 : 1`, in tenths
ThemeBoost(term) == IF toLowerCase(term) \in LABEL_THEME_TERMS THEN 16 ELSE 10

\* `presence > k * 0.5 ? 0.3 : presence > k * 0.35 ? 0.6 : 1.0`, in tenths
UbiquityPenalty(presence, kk) ==
    IF 2 * presence > kk THEN 3
    ELSE IF 100 * presence > 35 * kk THEN 6
    ELSE 10

\* clusterTermPresence[termIdx]: the number of clusters whose average score
\* for the term exceeds 0.01 (the matrix counts thousandths)
ClusterTermPresence(m, a, kk, termIdx) ==
    Cardinality({c \in 0..(kk - 1) :
        LET indices == Members(a, c)
            len == IF indices = {} THEN 1 ELSE Cardinality(indices)
        IN  SumOver(m, indices, termIdx) > 10 * len})

\* termScores[termIdx][1] of cluster c, times the size of the cluster (the
\* same for all terms of the cluster), in 1/100000
TermScore(vocabulary, m, a, kk, c, termIdx) ==
    SumOver(m, Members(a, c), termIdx)
        * ThemeBoost(vocabulary[termIdx])
        * UbiquityPenalty(ClusterTermPresence(m, a, kk, termIdx), kk)

\* termScores: the pairs [termIdx, score] of cluster c
TermScores(vocabulary, m, a, kk, c) ==
    [i \in 1..Len(vocabulary) |-> <<i, TermScore(vocabulary, m, a, kk, c, i)>>]

\* termScores.sort(...).slice(0, 10).filter(([, s]) => s > 0).map(([idx]) => vocab[idx])
TopTerms(vocabulary, termScores) ==
    LET sorted == SortDesc(termScores)
        first == SubSeq(sorted, 1, Min2(10, Len(sorted)))
        positive(e) == e[2] > 0
        kept == SelectSeq(first, positive)
    IN  [r \in 1..Len(kept) |-> vocabulary[kept[r][1]]]

startsWith(s, prefix) == StartsAt(s, prefix, 1)

\* .replace(/s$/, "")
StripFinalS(t) ==
    IF Len(t) > 0 /\ t[Len(t)] = "s" THEN SubSeq(t, 1, Len(t) - 1) ELSE t

isStemDuplicate(term, selected) ==
    \E i \in 1..Len(selected) :
        \/ startsWith(term, selected[i])
        \/ startsWith(selected[i], term)
        \/ StripFinalS(term) = StripFinalS(selected[i])

\* a loop that goes through all of top
RECURSIVE TopDedupedMutant(_, _, _)
TopDedupedMutant(top, i, acc) ==
    IF i > Len(top) THEN acc
    ELSE TopDedupedMutant(top, i + 1,
                          IF isStemDuplicate(top[i], acc) THEN acc ELSE Append(acc, top[i]))

\* the loop that fills topDeduped from top[i..]
RECURSIVE TopDeduped(_, _, _)
TopDeduped(top, i, acc) ==
    IF i > Len(top) \/ Len(acc) >= 3 THEN acc
    ELSE TopDeduped(top, i + 1,
                    IF isStemDuplicate(top[i], acc) THEN acc ELSE Append(acc, top[i]))

\* String.prototype.toUpperCase, one character
UpperChar(c) ==
    IF \E i \in 1..Len(LowerChars) : LowerChars[i] = c
    THEN UpperChars[CHOOSE i \in 1..Len(LowerChars) : LowerChars[i] = c]
    ELSE c

\* t.charAt(0).toUpperCase() + t.slice(1)
Capitalize(t) == IF t = <<>> THEN t ELSE <<UpperChar(t[1])>> \o Tail(t)

\* .join(" & ")
RECURSIVE JoinAmp(_)
JoinAmp(parts) ==
    IF parts = <<>> THEN <<>>
    ELSE IF Len(parts) = 1 THEN parts[1]
    ELSE parts[1] \o <<" ","&"," ">> \o JoinAmp(Tail(parts))

\* String(n) of a natural number
RECURSIVE DecimalString(_)
DecimalString(n) ==
    LET digit == <<"0","1","2","3","4","5","6","7","8","9">>[(n % 10) + 1]
    IN  IF n < 10 THEN <<digit>> ELSE Append(DecimalString(n \div 10), digit)

\* a label that joins the terms as they are
ClusterLabelMutant(topThree, c) ==
    IF Len(topThree) >= 1 THEN JoinAmp(topThree)
    ELSE <<"C","l","u","s","t","e","r"," ">> \o DecimalString(c + 1)

\* the label of cluster c (0-based) from its deduplicated top terms
ClusterLabel(topThree, c) ==
    IF Len(topThree) >= 2
    THEN JoinAmp([i \in 1..Len(topThree) |-> Capitalize(topThree[i])])
    ELSE IF Len(topThree) = 1 /\ topThree[1] # <<>>
         THEN Capitalize(topThree[1])
         ELSE <<"C","l","u","s","t","e","r"," ">> \o DecimalString(c + 1)

\* result[c] is element c + 1 of the sequence
topTermsPerCluster(docs, vocabulary, m, a) ==
    LET kk == ClusterCount(a)
    IN  [r \in 1..kk |->
            LET top == TopTerms(vocabulary, TermScores(vocabulary, m, a, kk, r - 1))
            IN  [label |-> ClusterLabel(TopDeduped(top, 1, <<>>), r - 1),
                 topTerms |-> SubSeq(top, 1, Min2(5, Len(top)))]]

\* the nodes of `nodes` in cluster cid, in order
NodesOf(nodes, cid) ==
    LET inCluster(node) == node.cluster = cid
    IN  SelectSeq(nodes, inCluster)

\* the levers of the nodes of a cluster, one entry per occurrence, in node order
ClusterLevers(nodes, cid) ==
    LET of == NodesOf(nodes, cid)
    IN  Flatten([i \in 1..Len(of) |-> StrOrEmpty(of[i], "designLevers")])

\* a design focus for a lever counted once
DesignFocusMutant(nodes, cid) ==
    LET levers == ClusterLevers(nodes, cid)
    IN  IF levers = <<>> THEN <<>> ELSE UnderscoresToSpaces(levers[1])

\* designFocus: the lever counted most often in the cluster (the first to
\* reach the map among equals) when it was counted twice or more, "" otherwise
DesignFocus(nodes, cid) ==
    LET levers == ClusterLevers(nodes, cid)
        keys == FirstSeen(levers)
        cnt(i) == TermCount(levers, keys[i])
        best == CHOOSE i \in 1..Len(keys) :
                    /\ \A j \in 1..Len(keys) : cnt(j) <= cnt(i)
                    /\ \A j \in 1..(i - 1) : cnt(j) < cnt(i)
    IN  IF keys = <<>> THEN <<>>
        ELSE IF cnt(best) >= 2 THEN UnderscoresToSpaces(keys[best])
        ELSE <<>>

\* designQuestionsByCluster.get(cid): the first two non-empty trimmed questions
SampleDesignQuestions(nodes, cid) ==
    LET of == NodesOf(nodes, cid)
        qs == [i \in 1..Len(of) |-> Trim(StrOrEmpty(of[i], "designQuestion"))]
        nonEmpty(q) == q # <<>>
        asked == SelectSeq(qs, nonEmpty)
    IN  SubSeq(asked, 1, Min2(2, Len(asked)))

\* s.split(sep).length for a non-empty separator
SepStart(s, sep, i) == FirstOf({j \in i..Len(s) : StartsAt(s, sep, j)})

RECURSIVE SplitCount(_, _, _)
SplitCount(s, sep, i) ==
    IF SepStart(s, sep, i) = 0 THEN 1
    ELSE 1 + SplitCount(s, sep, SepStart(s, sep, i) + Len(sep))

\* clustersOut[i]; a designFocus of undefined is a field the object lacks
ClusterOut(r, i, nodes) ==
    LET cid == ClusterId(i)
        designFocus == DesignFocus(nodes, cid)
        segmentCount == SplitCount(r.label, <<" ","&"," ">>, 1)
        label == IF /\ designFocus # <<>>
                    /\ segmentCount < 3
                    /\ ~includes(toLowerCase(r.label), toLowerCase(designFocus))
                 THEN Capitalize(designFocus) \o <<" ","&"," ">> \o r.label
                 ELSE r.label
        base == [id |-> cid,
                 label |-> label,
                 topTerms |-> r.topTerms,
                 sampleDesignQuestions |-> SampleDesignQuestions(nodes, cid)]
    IN  IF designFocus = <<>> THEN base
        ELSE [f \in DOMAIN base \cup {"designFocus"} |->
                 IF f = "designFocus" THEN designFocus ELSE base[f]]

ClustersOut(labelResults, nodes) ==
    [i \in 1..Len(labelResults) |-> ClusterOut(labelResults[i], i - 1, nodes)]

-----------------------------------------------------------------------------
(* The stores the runs start from *)

GraphNodes == <<
    [id |-> "trust",
     title |-> <<"T","r","u","s","t"," ","i","n"," ","h","u","m","a","n","-","A","I"," ","t","e","a","m","s">>,
     summary |-> <<"T","r","u","s","t"," ","c","a","l","i","b","r","a","t","i","o","n">>,
     year |-> 2021,
     designLevers |-> <<<<"i","n","t","e","r","f","a","c","e">>>>,
     cluster |-> ClusterId(2),
     embedding |-> <<Px(100), Px(100)>>],
    [id |-> "deleg",
     title |-> <<"D","e","l","e","g","a","t","i","o","n"," ","t","o"," ","a","g","e","n","t","s">>,
     citation |-> "Lee (2020)",
     designLevers |-> <<<<"w","o","r","k","f","l","o","w">>, <<"r","o","l","e">>>>],
    [id |-> "explain",
     title |-> <<"E","x","p","l","a","i","n","a","b","i","l","i","t","y"," ","f","o","r"," ","r","o","b","o","t","s">>,
     summary |-> <<>>,
     url |-> "https://e.org/x",
     designLevers |-> <<<<"i","n","t","e","r","f","a","c","e">>>>],
    [id |-> "ethics",
     title |-> <<"E","t","h","i","c","s"," ","o","f"," ","a","u","t","o","m","a","t","i","o","n">>,
     source |-> "industry",
     designLevers |-> <<<<"g","o","v","e","r","n","a","n","c","e">>, <<"i","n","t","e","r","f","a","c","e">>>>] >>

GraphStores ==
    { [clusters |-> <<>>, nodes |-> SubSeq(GraphNodes, 1, 2)],
      [clusters |-> <<>>, nodes |-> GraphNodes] }

CandidateItems == <<
    [id |-> "trust",
     title |-> <<"T","r","u","s","t"," ","i","n"," ","h","u","m","a","n","-","A","I"," ","t","e","a","m","s">>,
     summary |-> <<"T","r","u","s","t"," ","c","a","l","i","b","r","a","t","i","o","n">>,
     url |-> "https://f.org/1",
     publishedAt |-> <<"2","0","2","4","-","0","5","-","0","1">>,
     source |-> "industry",
     tags |-> <<"ai">>,
     feed |-> "OpenAI"],
    [id |-> "earn",
     title |-> <<"Q","u","a","r","t","e","r","l","y"," ","E","a","r","n","i","n","g","s"," ","R","e","p","o","r","t">>,
     url |-> "https://f.org/2",
     publishedAt |-> <<"M","a","y"," ","2","0","2","3">>],
    [id |-> "hci",
     title |-> <<"H","C","I"," ","<","b",">","r","o","b","o","t","s","<","/","b",">">>,
     summary |-> <<"T","e","a","m","i","n","g",","," ","s","e","e"," ","h","t","t","p","s",":","/","/","x",".","i","o","/","a">>,
     source |-> "research"] >>

-----------------------------------------------------------------------------
(* Bounds *)

MaxCand == 2        \* candidate items in the candidate store
MaxDocs == 6        \* documents handed to the clustering steps on their own
MaxK == 2           \* clusters asked of kmeans
MaxCoord == 1       \* extent of the raw PCA coordinates
MaxTitleWords == 2  \* words of a title handed to the relevance filter
MaxRequested == 22  \* the k asked for when the clamp is taken on its own
MaxCorpus == 22     \* documents of the corpus when the clamp is taken on its own
MaxTfDocs == 3      \* token lists handed to buildVocabulary and tfIdfMatrix on their own
MaxTokens == 2      \* tokens of one of those lists
MaxMergeDocs == 4   \* documents handed to mergeSmallClusters on its own
MaxMergeK == 4      \* cluster ids of those documents
MaxSites == 3       \* places those documents may lie at
MaxPieces == 3      \* pieces of a text handed to tokenize on its own
MaxVocabDocs == 3   \* token lists handed to buildVocabulary on its own
MaxTerms == 3       \* the maxTerms handed to it
MaxLabelDocs == 3   \* documents handed to topTermsPerCluster on its own
MaxRefetched == 3   \* items of the graph store found again in the candidate store
MaxSources == 2     \* feed sources the feed loop goes through

-----------------------------------------------------------------------------
(* The libraries *)

\* the first document with the same feature vector as document i
FirstSame(m, i) == CHOOSE j \in 1..i : m[j] = m[i] /\ \A j2 \in 1..(j - 1) : m[j2] # m[i]

\* what ml-kmeans may return for n points and kk clusters: an index below kk
\* for every point, the same for points with equal feature vectors
KMeansResults(m, kk) ==
    {a \in [1..Len(m) -> 0..(kk - 1)] : \A i \in 1..Len(m) : a[i] = a[FirstSame(m, i)]}

\* what the first two components of ml-pca's projection may be: here the
\* documents spread along the first axis, and those of one feature vector at
\* most lie away from the others on the second; equal feature vectors
\* project to equal points
Layout(n, first, o, h) ==
    [i \in 1..n |-> <<first[i] - 1, IF first[i] = o THEN 0 ELSE h>>]

PcaResults(m) ==
    {Layout(Len(m), [i \in 1..Len(m) |-> FirstSame(m, i)], o, 1) : o \in 0..Len(m)}

\* a memo that holds nothing yet
EmptyMemo == [x \in {} |-> x]

\* the seed handed to kmeans
KMeansSeedMutant == clockYear
KMeansSeed == 42

-----------------------------------------------------------------------------
(* main() *)

\* the clamp without the size of the corpus
EffectiveKMutant(requested, n) == Min2(requested, 20)

\* Math.min(K, allDocs.length, 20)
EffectiveK(requested, n) == Min2(requested, Min2(n, 20))

\* a node that is stamped with the year of the run
NodeOutMutant(d, clusterId, embedding) ==
    [f \in DOMAIN d.payload \cup {"cluster", "embedding", "year"} |->
        IF f = "cluster" THEN clusterId
        ELSE IF f = "embedding" THEN embedding
        ELSE IF f = "year" THEN clockYear
        ELSE d.payload[f]]

\* nodesOutRaw[i]: the payload with cluster and embedding set
NodeOut(d, clusterId, embedding) ==
    [f \in DOMAIN d.payload \cup {"cluster", "embedding"} |->
        IF f = "cluster" THEN clusterId
        ELSE IF f = "embedding" THEN embedding
        ELSE d.payload[f]]

\* a map that leaves the last document out
NodesOutRawMutant(docs, assign, pts) ==
    [i \in 1..(Len(docs) - 1) |-> NodeOut(docs[i], ClusterId(assign[i]), pts[i])]

NodesOutRaw(docs, assign, pts) ==
    [i \in 1..Len(docs) |-> NodeOut(docs[i], ClusterId(assign[i]), pts[i])]

\* a filter that lets every node through
DedupByIdMutant(nodes) == nodes

\* the seenIds filter: the first node of every id
DedupById(nodes) ==
    LET keep(i) == \A j \in 1..(i - 1) : nodes[j].id # nodes[i].id
        kept == {i \in 1..Len(nodes) : keep(i)}
        nth(r) == CHOOSE i \in kept : Cardinality({j \in kept : j < i}) = r - 1
    IN  [r \in 1..Cardinality(kept) |-> nodes[nth(r)]]

RunIdle ==
    /\ graph = <<>> /\ candidates = <<>> /\ relevantIngest = <<>>
    /\ allDocs = <<>> /\ tokenized = <<>> /\ vocab = <<>> /\ matrix = <<>> /\ k = 0
    /\ clusterAssignments = <<>> /\ raw2d = <<>> /\ points2d = <<>>
    /\ counts = <<>> /\ centroids = <<>> /\ assignments = <<>>
    /\ mergedAssignments = <<>> /\ mergedK = 0
    /\ clusterLabelResults = <<>> /\ points2dNeat = <<>>
    /\ nodesOut = <<>> /\ clustersOut = <<>>

FilterIdle == filterPc = "idle" /\ item = <<>> /\ relevant = FALSE /\ feed = <<>>

\* ingest-papers.mjs is not running
IngestIdle ==
    /\ ingestPc = "idle" /\ sources = <<>> /\ sourceIdx = 0
    /\ attempt = 0 /\ urlIdx = 0 /\ lastError = 0
    /\ answers = <<>> /\ sleeps = <<>>
    /\ returned = <<>> /\ fetched = <<>> /\ feedLog = <<>>
    /\ isDryRun = FALSE

\* the order-preserving selections of at most n elements of s
SubSeqsUpTo(s, n) ==
    LET pick(S) == [r \in 1..Cardinality(S) |->
                       s[CHOOSE i \in S : Cardinality({j \in S : j < i}) = r - 1]]
    IN  {pick(S) : S \in {T \in SUBSET (1..Len(s)) : Cardinality(T) <= n}}

CandidateStores ==
    {[state |-> "absent", items |-> <<>>]}
    \cup {[state |-> "ok", items |-> s] : s \in SubSeqsUpTo(CandidateItems, MaxCand)}

Init ==
    /\ graphFile \in GraphStores
    /\ candFile \in CandidateStores
    /\ argK \in 1..MaxK
    /\ dryRun \in BOOLEAN
    /\ clockYear \in {2025, 2026}
    /\ pc = "load"
    /\ RunIdle
    /\ kmeansMemo = EmptyMemo /\ pcaMemo = EmptyMemo
    /\ FilterIdle
    /\ IngestIdle
    /\ prev = <<>>

\* lines 456-457: readFile and JSON.parse of the graph store give an object
\* with nodes
GraphReadable(file) == "nodes" \in DOMAIN file

\* a reading of the candidate store that falls back to a built-in item
ReadCandidatesMutant(file) ==
    IF file.state = "ok" THEN [items |-> file.items]
    ELSE [items |-> SubSeq(CandidateItems, 1, 1)]

\* lines 458-464: `candidates` after the try/catch around readFile and
\* JSON.parse, { items: [] } when either threw
ReadCandidates(file) ==
    IF file.state = "ok" THEN [items |-> file.items] ELSE [items |-> <<>>]

\* lines 455-476: read both stores, filter the candidates, build allDocs
Load ==
    /\ pc = "load"
    /\ GraphReadable(graphFile)
    /\ graph' = graphFile
    /\ candidates' = ReadCandidates(candFile)
    /\ relevantIngest' = SelectSeq(candidates'.items, isHumanAICollabRelevant)
    /\ LET graphDocs == [i \in 1..Len(graph'.nodes) |-> graphNodeToDoc(graph'.nodes[i])]
           ingestDocs == [i \in 1..Len(relevantIngest') |->
                             ingestItemToDoc(relevantIngest'[i], clockYear)]
       IN  allDocs' = graphDocs \o ingestDocs
    /\ pc' = "vectorize"
    /\ UNCHANGED <<envVars, tokenized, vocab, matrix, k, clusterVars, mergeVars,
                   outVars, libVars, filterVars, prev, ingestVars>>

\* lines 479-484
Vectorize ==
    /\ pc = "vectorize"
    /\ tokenized' = [i \in 1..Len(allDocs) |->
                        tokenize(allDocs[i].title \o <<" ">> \o allDocs[i].title
                                 \o <<" ">> \o allDocs[i].summary)]
    /\ vocab' = buildVocabulary(tokenized', maxVocab)
    /\ matrix' = tfIdfMatrix(tokenized', vocab')
    /\ k' = EffectiveK(argK, Len(allDocs))
    /\ pc' = "kmeans"
    /\ UNCHANGED <<envVars, graph, candidates, relevantIngest, allDocs, clusterVars,
                   mergeVars, outVars, libVars, filterVars, prev, ingestVars>>

\* lines 486-487: kmeans(matrix, k, { maxIterations: 100, seed: 42 })
KMeans ==
    /\ pc = "kmeans"
    /\ LET key == <<matrix, k, KMeansSeed>>
       IN  IF key \in DOMAIN kmeansMemo
           THEN /\ clusterAssignments' = kmeansMemo[key]
                /\ UNCHANGED kmeansMemo
           ELSE \E a \in KMeansResults(matrix, k) :
                    /\ clusterAssignments' = a
                    /\ kmeansMemo' = kmeansMemo @@ (key :> a)
    /\ pc' = "pca"
    /\ UNCHANGED <<envVars, docVars, raw2d, points2d, mergeVars, outVars, pcaMemo,
                   filterVars, prev, ingestVars>>

\* lines 490-497: new PCA(matrix).predict(matrix), first two components
Project ==
    /\ pc = "pca"
    /\ IF matrix \in DOMAIN pcaMemo
       THEN /\ raw2d' = pcaMemo[matrix]
            /\ UNCHANGED pcaMemo
       ELSE \E p \in PcaResults(matrix) :
                /\ raw2d' = p
                /\ pcaMemo' = pcaMemo @@ (matrix :> p)
    /\ pc' = "scale"
    /\ UNCHANGED <<envVars, docVars, clusterAssignments, points2d, mergeVars, outVars,
                   kmeansMemo, filterVars, prev, ingestVars>>

\* line 498
Scale ==
    /\ pc = "scale"
    /\ points2d' = scaleToViewBox(raw2d)
    /\ pc' = "mergeBegin"
    /\ UNCHANGED <<envVars, docVars, clusterAssignments, raw2d, mergeVars, outVars,
                   libVars, filterVars, prev, ingestVars>>

\* mergeSmallClusters, lines 204-222: counts, centroids, the copy of the assignments
MergeBegin ==
    /\ pc = "mergeBegin"
    /\ counts' = CountsOf(clusterAssignments, ClusterCount(clusterAssignments))
    /\ centroids' = CentroidsOf(points2d, clusterAssignments, ClusterCount(clusterAssignments))
    /\ assignments' = clusterAssignments
    /\ pc' = "mergeLoop"
    /\ UNCHANGED <<envVars, docVars, clusterVars, mergedAssignments, mergedK, outVars,
                   libVars, filterVars, prev, ingestVars>>

\* an iteration that moves the members and leaves the counts as they were
MergeStepMutant ==
    /\ pc = "mergeLoop"
    /\ LET small == SmallIndex(counts, MIN_CLUSTER_SIZE)
           nearest == NearestIndex(centroids, counts, small)
       IN  /\ small # -1
           /\ nearest # -1
           /\ assignments' = [i \in 1..Len(assignments) |->
                                 IF assignments[i] = small THEN nearest ELSE assignments[i]]
    /\ UNCHANGED <<envVars, pc, docVars, clusterVars, counts, centroids, mergedAssignments,
                   mergedK, outVars, libVars, filterVars, prev, ingestVars>>

\* an iteration that moves the members of the nearest cluster into the small one
MergeStepReversed ==
    /\ pc = "mergeLoop"
    /\ LET small == SmallIndex(counts, MIN_CLUSTER_SIZE)
           nearest == NearestIndex(centroids, counts, small)
       IN  /\ small # -1
           /\ nearest # -1
           /\ assignments' = [i \in 1..Len(assignments) |->
                                 IF assignments[i] = nearest THEN small ELSE assignments[i]]
           /\ counts' = [counts EXCEPT ![small] = counts[nearest] + counts[small],
                                       ![nearest] = 0]
    /\ UNCHANGED <<envVars, pc, docVars, clusterVars, centroids, mergedAssignments,
                   mergedK, outVars, libVars, filterVars, prev, ingestVars>>

\* mergeSmallClusters, lines 223-244: one iteration that merges
MergeStep ==
    /\ pc = "mergeLoop"
    /\ LET small == SmallIndex(counts, MIN_CLUSTER_SIZE)
           nearest == NearestIndex(centroids, counts, small)
       IN  /\ small # -1
           /\ nearest # -1
           /\ assignments' = [i \in 1..Len(assignments) |->
                                 IF assignments[i] = small THEN nearest ELSE assignments[i]]
           /\ counts' = [counts EXCEPT ![nearest] = counts[nearest] + counts[small],
                                       ![small] = 0]
    /\ UNCHANGED <<envVars, pc, docVars, clusterVars, centroids, mergedAssignments,
                   mergedK, outVars, libVars, filterVars, prev, ingestVars>>

\* mergeSmallClusters, lines 225, 238 and 246-252: leave the loop, renumber
MergeExit ==
    /\ pc = "mergeLoop"
    /\ LET small == SmallIndex(counts, MIN_CLUSTER_SIZE)
       IN  IF small = -1 THEN TRUE ELSE NearestIndex(centroids, counts, small) = -1
    /\ mergedAssignments' = [i \in 1..Len(assignments) |-> OldToNew(counts)[assignments[i]]]
    /\ mergedK' = Cardinality({c \in DOMAIN counts : counts[c] > 0})
    /\ pc' = "label"
    /\ UNCHANGED <<envVars, docVars, clusterVars, counts, centroids, assignments,
                   outVars, libVars, filterVars, prev, ingestVars>>

\* lines 508-513
Label ==
    /\ pc = "label"
    /\ clusterLabelResults' = topTermsPerCluster(tokenized, vocab, matrix, mergedAssignments)
    /\ pc' = "compose"
    /\ UNCHANGED <<envVars, docVars, clusterVars, mergeVars, points2dNeat, nodesOut,
                   clustersOut, libVars, filterVars, prev, ingestVars>>

\* line 516
Compose ==
    /\ pc = "compose"
    /\ points2dNeat' = applyNeatComposition(points2d, mergedAssignments, mergedK)
    /\ pc' = "emit"
    /\ UNCHANGED <<envVars, docVars, clusterVars, mergeVars, clusterLabelResults, nodesOut,
                   clustersOut, libVars, filterVars, prev, ingestVars>>

\* an output step that already writes the store
EmitMutant ==
    /\ pc = "emit"
    /\ nodesOut' = DedupById(NodesOutRaw(allDocs, mergedAssignments, points2dNeat))
    /\ clustersOut' = ClustersOut(clusterLabelResults, nodesOut')
    /\ graphFile' = IF dryRun THEN graphFile
                    ELSE [clusters |-> clustersOut', nodes |-> nodesOut']
    /\ pc' = "finish"
    /\ UNCHANGED <<candFile, argK, dryRun, clockYear, docVars, clusterVars, mergeVars,
                   clusterLabelResults, points2dNeat, libVars, filterVars, prev, ingestVars>>

\* lines 519-588
Emit ==
    /\ pc = "emit"
    /\ nodesOut' = DedupById(NodesOutRaw(allDocs, mergedAssignments, points2dNeat))
    /\ clustersOut' = ClustersOut(clusterLabelResults, nodesOut')
    /\ pc' = "finish"
    /\ UNCHANGED <<envVars, docVars, clusterVars, mergeVars, clusterLabelResults,
                   points2dNeat, libVars, filterVars, prev, ingestVars>>

\* a run that writes the store whatever --dry-run says
FinishMutant ==
    /\ pc = "finish"
    /\ graphFile' = [clusters |-> clustersOut, nodes |-> nodesOut]
    /\ pc' = "done"
    /\ UNCHANGED <<candFile, argK, dryRun, clockYear, docVars, clusterVars, mergeVars,
                   outVars, libVars, filterVars, prev, ingestVars>>

\* lines 590-603: JSON.stringify leaves out what is undefined, and the
\* records here hold no such field
Finish ==
    /\ pc = "finish"
    /\ \/ /\ dryRun
          /\ UNCHANGED graphFile
       \/ /\ ~dryRun
          /\ graphFile' = [clusters |-> clustersOut, nodes |-> nodesOut]
    /\ pc' = "done"
    /\ UNCHANGED <<candFile, argK, dryRun, clockYear, docVars, clusterVars, mergeVars,
                   outVars, libVars, filterVars, prev, ingestVars>>

Next ==
    \/ Load \/ Vectorize \/ KMeans \/ Project \/ Scale
    \/ MergeBegin \/ MergeStep \/ MergeExit
    \/ Label \/ Compose \/ Emit \/ Finish

Spec == Init /\ [][Next]_vars

-----------------------------------------------------------------------------
(* A run on stores that may be missing or unparsable *)

\* a graph store that is not there, and one that is not JSON
UnreadableGraphStores == {[state |-> "absent"], [state |-> "malformed"]}

\* a candidate store that is there and is not JSON
MalformedCandidateStore == [state |-> "malformed", items |-> <<>>]

LoadInit ==
    /\ graphFile \in GraphStores \cup UnreadableGraphStores
    /\ candFile \in CandidateStores \cup {MalformedCandidateStore}
    /\ argK \in 1..MaxK
    /\ dryRun \in BOOLEAN
    /\ clockYear = 2025
    /\ pc = "load"
    /\ RunIdle
    /\ kmeansMemo = EmptyMemo /\ pcaMemo = EmptyMemo
    /\ FilterIdle
    /\ IngestIdle
    /\ prev = <<>>

\* lines 456-457 throw, then main().catch, lines 606-609: process.exit(1)
LoadFails ==
    /\ pc = "load"
    /\ ~GraphReadable(graphFile)
    /\ pc' = "failed"
    /\ UNCHANGED <<envVars, docVars, clusterVars, mergeVars, outVars, libVars,
                   filterVars, prev, ingestVars>>

LoadNext == Next \/ LoadFails

SpecLoad == LoadInit /\ [][LoadNext]_vars

\* lines 606-609 for an exception raised by the step main() is at, before the
\* store is written
RunThrows ==
    /\ pc \in {"load", "vectorize", "kmeans", "pca", "scale", "mergeBegin", "mergeLoop",
               "label", "compose", "emit"}
    /\ pc' = "failed"
    /\ UNCHANGED <<envVars, docVars, clusterVars, mergeVars, outVars, libVars, filterVars,
                   prev, ingestVars>>

ThrowNext == Next \/ LoadFails \/ RunThrows

\* a run any step of which may throw
SpecThrow == LoadInit /\ [][ThrowNext]_vars

-----------------------------------------------------------------------------
(* Two runs in a row: a dry run and then the run that writes, with the same *)
(* stores; or a run that writes and then a dry run on what it wrote, the    *)
(* candidates used up                                                       *)

\* the candidate stores of the first run: none, or one of MaxCand items
RerunCandidateStores ==
    {c \in CandidateStores : c.state = "absent" \/ Len(c.items) = MaxCand}

\* a dry run on the large store
RerunInit ==
    /\ graphFile = [clusters |-> <<>>, nodes |-> GraphNodes]
    /\ candFile \in RerunCandidateStores
    /\ argK \in 1..MaxK
    /\ dryRun = TRUE
    /\ clockYear = 2025
    /\ pc = "load"
    /\ RunIdle
    /\ kmeansMemo = EmptyMemo /\ pcaMemo = EmptyMemo
    /\ FilterIdle
    /\ IngestIdle
    /\ prev = <<>>

\* a run that writes, on the small store
FeedBackInit ==
    /\ graphFile = [clusters |-> <<>>, nodes |-> SubSeq(GraphNodes, 1, 2)]
    /\ candFile \in CandidateStores
    /\ argK \in 1..MaxK
    /\ dryRun = FALSE
    /\ clockYear = 2025
    /\ pc = "load"
    /\ RunIdle
    /\ kmeansMemo = EmptyMemo /\ pcaMemo = EmptyMemo
    /\ FilterIdle
    /\ IngestIdle
    /\ prev = <<>>

\* main() is started again once it has returned, a year later: after a dry
\* run without --dry-run and with the same candidates, after a run that
\* wrote with --dry-run and with no candidates
Restart ==
    /\ pc = "done"
    /\ prev = <<>>
    /\ prev' = [graph |-> graph, candFile |-> candFile, argK |-> argK,
                dryRun |-> dryRun, clockYear |-> clockYear,
                mergedAssignments |-> mergedAssignments,
                clusterLabelResults |-> clusterLabelResults,
                nodesOut |-> nodesOut, clustersOut |-> clustersOut]
    /\ candFile' = IF dryRun THEN candFile ELSE [state |-> "ok", items |-> <<>>]
    /\ dryRun' = ~dryRun
    /\ clockYear' = clockYear + 1
    /\ pc' = "load"
    /\ graph' = <<>> /\ candidates' = <<>> /\ relevantIngest' = <<>>
    /\ allDocs' = <<>> /\ tokenized' = <<>> /\ vocab' = <<>> /\ matrix' = <<>> /\ k' = 0
    /\ clusterAssignments' = <<>> /\ raw2d' = <<>> /\ points2d' = <<>>
    /\ counts' = <<>> /\ centroids' = <<>> /\ assignments' = <<>>
    /\ mergedAssignments' = <<>> /\ mergedK' = 0
    /\ clusterLabelResults' = <<>> /\ points2dNeat' = <<>>
    /\ nodesOut' = <<>> /\ clustersOut' = <<>>
    /\ UNCHANGED <<graphFile, argK, libVars, filterVars, ingestVars>>

RerunNext == Next \/ Restart

SpecRerun == RerunInit /\ [][RerunNext]_vars

SpecFeedBack == FeedBackInit /\ [][RerunNext]_vars

-----------------------------------------------------------------------------
(* The clustering steps on their own: scaleToViewBox, mergeSmallClusters and *)
(* applyNeatComposition on the points and assignments of up to MaxDocs       *)
(* documents                                                                 *)

ClusterInit ==
    /\ \E n \in 1..MaxDocs : \E kk \in 1..Min2(MaxK, n) :
         /\ k = kk
         /\ clusterAssignments \in [1..n -> 0..(kk - 1)]
         /\ raw2d \in {Layout(n, [i \in 1..n |-> i], o, h) : o \in 0..n, h \in 0..MaxCoord}
    /\ pc = "scale"
    /\ graphFile = <<>> /\ candFile = <<>> /\ argK = 0 /\ dryRun = FALSE /\ clockYear = 0
    /\ graph = <<>> /\ candidates = <<>> /\ relevantIngest = <<>>
    /\ allDocs = <<>> /\ tokenized = <<>> /\ vocab = <<>> /\ matrix = <<>>
    /\ points2d = <<>>
    /\ counts = <<>> /\ centroids = <<>> /\ assignments = <<>>
    /\ mergedAssignments = <<>> /\ mergedK = 0
    /\ clusterLabelResults = <<>> /\ points2dNeat = <<>>
    /\ nodesOut = <<>> /\ clustersOut = <<>>
    /\ kmeansMemo = EmptyMemo /\ pcaMemo = EmptyMemo
    /\ FilterIdle
    /\ IngestIdle
    /\ prev = <<>>

ClusterNext == Scale \/ MergeBegin \/ MergeStep \/ MergeExit \/ Label \/ Compose

SpecCluster == ClusterInit /\ [][ClusterNext]_vars

-----------------------------------------------------------------------------
(* mergeSmallClusters on its own, for up to MaxMergeDocs documents with      *)
(* cluster ids below MaxMergeK that lie at the first MaxSites of MergeSites  *)

\* places in the viewBox plane, in viewBox units
MergeSites == << <<0, 0>>, <<2, 0>>, <<0, 2>>, <<4, 0>>, <<2, 2>>, <<0, 4>> >>

\* the ways to put n documents at the sites; mergeSmallClusters looks at
\* which cluster a document is in and where it lies, whatever its index, so
\* the documents are listed in the order of their sites
SitePlacements(n) ==
    {s \in [1..n -> 1..MaxSites] : \A i \in 1..(n - 1) : s[i] <= s[i + 1]}

MergeInit ==
    /\ \E n \in 1..MaxMergeDocs : \E s \in SitePlacements(n) :
         /\ clusterAssignments \in [1..n -> 0..(MaxMergeK - 1)]
         /\ points2d = [i \in 1..n |-> <<Px(MergeSites[s[i]][1]), Px(MergeSites[s[i]][2])>>]
    /\ pc = "mergeBegin"
    /\ graphFile = <<>> /\ candFile = <<>> /\ argK = 0 /\ dryRun = FALSE /\ clockYear = 0
    /\ graph = <<>> /\ candidates = <<>> /\ relevantIngest = <<>>
    /\ allDocs = <<>> /\ tokenized = <<>> /\ vocab = <<>> /\ matrix = <<>> /\ k = 0
    /\ raw2d = <<>>
    /\ counts = <<>> /\ centroids = <<>> /\ assignments = <<>>
    /\ mergedAssignments = <<>> /\ mergedK = 0
    /\ clusterLabelResults = <<>> /\ points2dNeat = <<>>
    /\ nodesOut = <<>> /\ clustersOut = <<>>
    /\ kmeansMemo = EmptyMemo /\ pcaMemo = EmptyMemo
    /\ FilterIdle
    /\ IngestIdle
    /\ prev = <<>>

MergeNext == MergeBegin \/ MergeStep \/ MergeExit

SpecMerge == MergeInit /\ [][MergeNext]_vars

\* the loop is a `while (true)` of one thread: it goes on as long as it can
SpecMergeFair == MergeInit /\ [][MergeNext]_vars /\ WF_vars(MergeNext)

-----------------------------------------------------------------------------
(* The relevance filter on its own *)

FilterWords == <<
    <<"H","u","m","a","n">>,
    <<"A","I">>,
    <<"-">>,
    <<" ">>,
    <<"ndash">>,
    <<"t","e","a","m","i","n","g">>,
    <<"H","C","I">>,
    <<"R","e","p","o","r","t">> >>

\* the texts of at most n words
RECURSIVE WordTexts(_)
WordTexts(n) ==
    IF n = 0 THEN {<<>>}
    ELSE WordTexts(n - 1)
         \cup {t \o FilterWords[w] : t \in WordTexts(n - 1), w \in 1..Len(FilterWords)}

FilterTitles ==
    WordTexts(MaxTitleWords)
    \cup { <<"B","u","i","l","d","i","n","g"," ","T","r","u","s","t"," ","i","n"," ","H","u","m","a","n","-","A","I"," ","T","e","a","m","i","n","g">>,
           <<"Q","u","a","r","t","e","r","l","y"," ","E","a","r","n","i","n","g","s"," ","R","e","p","o","r","t">> }

FilterSummaries == WordTexts(1)

FilterItems ==
    {[id |-> "x"]}
    \cup {[id |-> "x", title |-> t] : t \in FilterTitles}
    \cup {[id |-> "x", summary |-> s] : s \in FilterSummaries}
    \cup {[id |-> "x", title |-> t, summary |-> s] : t \in FilterTitles, s \in FilterSummaries}

FilterInit ==
    /\ item \in FilterItems
    /\ filterPc = "call"
    /\ IngestIdle
    /\ relevant = FALSE
    /\ feed = <<>>
    /\ graphFile = <<>> /\ candFile = <<>> /\ argK = 0 /\ dryRun = FALSE /\ clockYear = 0
    /\ pc = "idle"
    /\ RunIdle
    /\ kmeansMemo = EmptyMemo /\ pcaMemo = EmptyMemo
    /\ prev = <<>>

FilterCall ==
    /\ filterPc = "call"
    /\ relevant' = isHumanAICollabRelevant(item)
    /\ filterPc' = "returned"
    /\ UNCHANGED <<envVars, pc, docVars, clusterVars, mergeVars, outVars, libVars, item,
                   feed, prev, ingestVars>>

SpecFilter == FilterInit /\ [][FilterCall]_vars

-----------------------------------------------------------------------------
(* buildVocabulary and tfIdfMatrix on their own: lines 480-483 for up to     *)
(* MaxTfDocs token lists of up to MaxTokens tokens                           *)

TfTokens == {<<"a","i">>, <<"t","r","u","s","t">>}

\* the sequences of at most n elements of S
SeqsUpTo(S, n) == UNION {[1..m -> S] : m \in 0..n}

TfCorpora == SeqsUpTo(SeqsUpTo(TfTokens, MaxTokens), MaxTfDocs) \ {<<>>}

TfIdfInit ==
    /\ tokenized \in TfCorpora
    /\ pc = "tfidf"
    /\ graphFile = <<>> /\ candFile = <<>> /\ argK = 0 /\ dryRun = FALSE /\ clockYear = 0
    /\ graph = <<>> /\ candidates = <<>> /\ relevantIngest = <<>>
    /\ allDocs = <<>> /\ vocab = <<>> /\ matrix = <<>> /\ k = 0
    /\ clusterAssignments = <<>> /\ raw2d = <<>> /\ points2d = <<>>
    /\ counts = <<>> /\ centroids = <<>> /\ assignments = <<>>
    /\ mergedAssignments = <<>> /\ mergedK = 0
    /\ clusterLabelResults = <<>> /\ points2dNeat = <<>>
    /\ nodesOut = <<>> /\ clustersOut = <<>>
    /\ kmeansMemo = EmptyMemo /\ pcaMemo = EmptyMemo
    /\ FilterIdle
    /\ IngestIdle
    /\ prev = <<>>

\* lines 480-483
TfIdf ==
    /\ pc = "tfidf"
    /\ vocab' = buildVocabulary(tokenized, maxVocab)
    /\ matrix' = tfIdfMatrix(tokenized, vocab')
    /\ pc' = "vectorized"
    /\ UNCHANGED <<envVars, graph, candidates, relevantIngest, allDocs, tokenized, k,
                   clusterVars, mergeVars, outVars, libVars, filterVars, prev, ingestVars>>

SpecTfIdf == TfIdfInit /\ [][TfIdf]_vars

-----------------------------------------------------------------------------
(* The clamp of the cluster count on its own: line 484 for a requested k and *)
(* a corpus of up to MaxCorpus documents                                     *)

ClampInit ==
    /\ argK \in 1..MaxRequested
    /\ allDocs \in {[i \in 1..n |-> graphNodeToDoc(GraphNodes[1])] : n \in 1..MaxCorpus}
    /\ pc = "clamp"
    /\ graphFile = <<>> /\ candFile = <<>> /\ dryRun = FALSE /\ clockYear = 0
    /\ graph = <<>> /\ candidates = <<>> /\ relevantIngest = <<>>
    /\ tokenized = <<>> /\ vocab = <<>> /\ matrix = <<>> /\ k = 0
    /\ clusterAssignments = <<>> /\ raw2d = <<>> /\ points2d = <<>>
    /\ counts = <<>> /\ centroids = <<>> /\ assignments = <<>>
    /\ mergedAssignments = <<>> /\ mergedK = 0
    /\ clusterLabelResults = <<>> /\ points2dNeat = <<>>
    /\ nodesOut = <<>> /\ clustersOut = <<>>
    /\ kmeansMemo = EmptyMemo /\ pcaMemo = EmptyMemo
    /\ FilterIdle
    /\ IngestIdle
    /\ prev = <<>>

\* line 484
Clamp ==
    /\ pc = "clamp"
    /\ k' = EffectiveK(argK, Len(allDocs))
    /\ pc' = "clamped"
    /\ UNCHANGED <<envVars, graph, candidates, relevantIngest, allDocs, tokenized, vocab,
                   matrix, clusterVars, mergeVars, outVars, libVars, filterVars, prev, ingestVars>>

SpecClamp == ClampInit /\ [][Clamp]_vars

-----------------------------------------------------------------------------
(* Ingestion, then the merge step's reading of what ingestion persisted *)

\* what the feeds may give: one item of any of the texts of the filter, or
\* some of the candidate items
FeedLists ==
    {<<it>> : it \in FilterItems} \cup SubSeqsUpTo(CandidateItems, MaxCand)

IngestInit ==
    /\ feed \in FeedLists
    /\ candFile = [state |-> "absent", items |-> <<>>]
    /\ graphFile = <<>> /\ argK = 0 /\ dryRun = FALSE /\ clockYear = 0
    /\ pc = "ingest"
    /\ RunIdle
    /\ kmeansMemo = EmptyMemo /\ pcaMemo = EmptyMemo
    /\ filterPc = "idle" /\ item = <<>> /\ relevant = FALSE
    /\ IngestIdle
    /\ prev = <<>>

\* ingest-papers.mjs, run(), lines 468-491: filter the feed items, write the
\* candidate store
IngestFeeds ==
    /\ pc = "ingest"
    /\ candFile' = [state |-> "ok", items |-> FeedCandidates(feed)]
    /\ pc' = "refilter"
    /\ UNCHANGED <<graphFile, argK, dryRun, clockYear, docVars, clusterVars, mergeVars,
                   outVars, libVars, filterVars, prev, ingestVars>>

\* merge-graph.mjs, main(), lines 458-467: read the candidate store, filter it
Refilter ==
    /\ pc = "refilter"
    /\ candidates' = ReadCandidates(candFile)
    /\ relevantIngest' = SelectSeq(candidates'.items, isHumanAICollabRelevant)
    /\ pc' = "refiltered"
    /\ UNCHANGED <<envVars, graph, allDocs, tokenized, vocab, matrix, k, clusterVars,
                   mergeVars, outVars, libVars, filterVars, prev, ingestVars>>

IngestNext == IngestFeeds \/ Refilter

SpecIngest == IngestInit /\ [][IngestNext]_vars

-----------------------------------------------------------------------------
(* tokenize on its own, for the texts of up to MaxPieces pieces and for      *)
(* values that are not strings                                               *)

TokenPieces == <<
    <<"T","r","u","s","t">>,
    <<"t","e","a","m","s">>,
    <<"t","h","e">>,
    <<" ">>,
    <<"-">>,
    <<"<","b",">">>,
    <<"<">>,
    <<">">>,
    <<"h","t","t","p",":","/","/">>,
    <<"x",".","o","r","g","/">> >>

\* the texts of at most n pieces
RECURSIVE PieceTexts(_)
PieceTexts(n) ==
    IF n = 0 THEN {<<>>}
    ELSE PieceTexts(n - 1)
         \cup {t \o TokenPieces[w] : t \in PieceTexts(n - 1), w \in 1..Len(TokenPieces)}

TokenizeArgs ==
    {[typeof |-> "string", value |-> t] : t \in PieceTexts(MaxPieces)}
    \cup {[typeof |-> "undefined"], [typeof |-> "number"], [typeof |-> "object"]}

TokenizeInit ==
    /\ item \in TokenizeArgs
    /\ filterPc = "call"
    /\ IngestIdle
    /\ relevant = FALSE
    /\ feed = <<>>
    /\ graphFile = <<>> /\ candFile = <<>> /\ argK = 0 /\ dryRun = FALSE /\ clockYear = 0
    /\ pc = "idle"
    /\ RunIdle
    /\ kmeansMemo = EmptyMemo /\ pcaMemo = EmptyMemo
    /\ prev = <<>>

\* the call tokenize(item); its result is kept as the only row of tokenized
TokenizeCall ==
    /\ filterPc = "call"
    /\ tokenized' = <<tokenizeArg(item)>>
    /\ filterPc' = "returned"
    /\ UNCHANGED <<envVars, pc, graph, candidates, relevantIngest, allDocs, vocab, matrix,
                   k, clusterVars, mergeVars, outVars, libVars, item, relevant, feed, prev, ingestVars>>

SpecTokenize == TokenizeInit /\ [][TokenizeCall]_vars

-----------------------------------------------------------------------------
(* buildVocabulary on its own, for up to MaxVocabDocs token lists and a      *)
(* maxTerms of up to MaxTerms                                                *)

VocabDocs == {
    <<>>,
    << <<"a","i">> >>,
    << <<"t","r","u","s","t">> >>,
    << <<"t","e","a","m">> >>,
    << <<"a","i">>, <<"a","i">>, <<"a","i">> >>,
    << <<"t","e","a","m">>, <<"t","r","u","s","t">> >>,
    << <<"t","r","u","s","t">>, <<"a","i">> >>,
    << <<"a","i">>, <<"t","e","a","m">>, <<"a","i">> >> }

VocabInit ==
    /\ item \in {[docs |-> d, maxTerms |-> m] :
                    d \in SeqsUpTo(VocabDocs, MaxVocabDocs) \ {<<>>}, m \in 0..MaxTerms}
    /\ filterPc = "call"
    /\ IngestIdle
    /\ relevant = FALSE
    /\ feed = <<>>
    /\ graphFile = <<>> /\ candFile = <<>> /\ argK = 0 /\ dryRun = FALSE /\ clockYear = 0
    /\ pc = "idle"
    /\ RunIdle
    /\ kmeansMemo = EmptyMemo /\ pcaMemo = EmptyMemo
    /\ prev = <<>>

\* the call buildVocabulary(item.docs, item.maxTerms)
VocabCall ==
    /\ filterPc = "call"
    /\ vocab' = buildVocabulary(item.docs, item.maxTerms)
    /\ filterPc' = "returned"
    /\ UNCHANGED <<envVars, pc, graph, candidates, relevantIngest, allDocs, tokenized,
                   matrix, k, clusterVars, mergeVars, outVars, libVars, item, relevant,
                   feed, prev, ingestVars>>

SpecVocab == VocabInit /\ [][VocabCall]_vars

-----------------------------------------------------------------------------
(* topTermsPerCluster on its own (lines 508-513), for up to MaxLabelDocs     *)
(* documents with the vocabulary and the matrix of lines 480-483 and any     *)
(* assignment that uses every cluster id below its cluster count            *)

LabelDocs == {
    <<>>,
    << <<"a","i">> >>,
    << <<"t","e","a","m","s">>, <<"a","i">> >>,
    << <<"t","e","a","m">>, <<"t","e","a","m","s">>, <<"t","e","a","m","i","n","g">>, <<"t","r","u","s","t">> >>,
    << <<"t","r","u","s","t">>, <<"a","g","e","n","t","s">>, <<"a","g","e","n","t">>, <<"s","a","f","e","t","y">>, <<"o","v","e","r","s","i","g","h","t">> >>,
    << <<"t","e">>, <<"t","e","a">>, <<"t","e","a","m">>, <<"t","e","a","m","w">>, <<"t","e","a","m","w","o">>, <<"t","e","a","m","w","o","r">>, <<"t","e","a","m","w","o","r","k">>, <<"t","e","a","m","w","o","r","k","i">>, <<"t","e","a","m","w","o","r","k","i","n">>, <<"t","e","a","m","w","o","r","k","i","n","g">>, <<"z","e","b","r","a">> >> }

\* the assignments of n documents that use every id below their cluster count
DenseAssignments(n) ==
    UNION {{a \in [1..n -> 0..(kk - 1)] : \A c \in 0..(kk - 1) : \E i \in 1..n : a[i] = c} :
           kk \in 1..n}

LabelInit ==
    /\ tokenized \in SeqsUpTo(LabelDocs, MaxLabelDocs) \ {<<>>}
    /\ vocab = buildVocabulary(tokenized, maxVocab)
    /\ matrix = tfIdfMatrix(tokenized, vocab)
    /\ mergedAssignments \in DenseAssignments(Len(tokenized))
    /\ mergedK = ClusterCount(mergedAssignments)
    /\ pc = "label"
    /\ graphFile = <<>> /\ candFile = <<>> /\ argK = 0 /\ dryRun = FALSE /\ clockYear = 0
    /\ graph = <<>> /\ candidates = <<>> /\ relevantIngest = <<>>
    /\ allDocs = <<>> /\ k = 0
    /\ clusterAssignments = <<>> /\ raw2d = <<>> /\ points2d = <<>>
    /\ counts = <<>> /\ centroids = <<>> /\ assignments = <<>>
    /\ clusterLabelResults = <<>> /\ points2dNeat = <<>>
    /\ nodesOut = <<>> /\ clustersOut = <<>>
    /\ kmeansMemo = EmptyMemo /\ pcaMemo = EmptyMemo
    /\ FilterIdle
    /\ IngestIdle
    /\ prev = <<>>

SpecLabel == LabelInit /\ [][Label]_vars

-----------------------------------------------------------------------------
(* The composition and the output of main() on their own (lines 516-588),   *)
(* for documents of the graph store, one cluster or two clusters of at      *)
(* least MIN_CLUSTER_SIZE documents each, and labels of one to three terms  *)

EmitNodes == <<
    [id |-> "a",
     title |-> <<"T","r","u","s","t"," ","i","n"," ","t","e","a","m","s">>,
     designLevers |-> << <<"i","n","t","e","r","f","a","c","e">> >>],
    [id |-> "b",
     title |-> <<"A","g","e","n","t","s"," ","a","n","d"," ","s","a","f","e","t","y">>,
     designLevers |-> << <<"i","n","t","e","r","f","a","c","e">>, <<"h","u","m","a","n","_","o","v","e","r","s","i","g","h","t">> >>],
    [id |-> "c",
     title |-> <<"O","v","e","r","s","i","g","h","t"," ","o","f"," ","a","g","e","n","t","s">>,
     designLevers |-> << <<"h","u","m","a","n","_","o","v","e","r","s","i","g","h","t">> >>],
    [id |-> "d",
     title |-> <<"D","e","l","e","g","a","t","i","o","n">>],
    [id |-> "a",
     title |-> <<"T","r","u","s","t"," ","i","n"," ","t","e","a","m","s"," ","a","g","a","i","n">>,
     designLevers |-> << <<"i","n","t","e","r","f","a","c","e">> >>],
    [id |-> "e",
     title |-> <<"W","o","r","k","f","l","o","w"," ","a","u","t","o","m","a","t","i","o","n">>,
     designLevers |-> << <<"w","o","r","k","f","l","o","w">> >>],
    [id |-> "f",
     title |-> <<"R","o","b","o","t"," ","c","o","n","t","r","o","l">>,
     designLevers |-> << <<"w","o","r","k","f","l","o","w">>, <<"i","n","t","e","r","f","a","c","e">> >>] >>

EmitLabels == {
    <<"T","r","u","s","t">>,
    <<"I","n","t","e","r","f","a","c","e","s"," ","&"," ","T","r","u","s","t">>,
    <<"T","r","u","s","t"," ","&"," ","A","g","e","n","t","s"," ","&"," ","S","a","f","e","t","y">> }

\* what mergeSmallClusters may return for n documents: one cluster, or two
\* with MIN_CLUSTER_SIZE documents or more each
MergedAssignments(n) ==
    {a \in [1..n -> 0..1] :
        \/ \A i \in 1..n : a[i] = 0
        \/ \A c \in 0..1 : Cardinality({i \in 1..n : a[i] = c}) >= MIN_CLUSTER_SIZE}

EmitInit ==
    /\ \E nodes \in SubSeqsUpTo(EmitNodes, Len(EmitNodes)) \ {<<>>} :
          /\ allDocs = [i \in 1..Len(nodes) |-> graphNodeToDoc(nodes[i])]
          /\ points2d = scaleToViewBox([i \in 1..Len(nodes) |-> <<i - 1, 0>>])
    /\ mergedAssignments \in MergedAssignments(Len(allDocs))
    /\ mergedK = ClusterCount(mergedAssignments)
    /\ clusterLabelResults \in
          [1..mergedK -> {[label |-> l, topTerms |-> <<>>] : l \in EmitLabels}]
    /\ pc = "compose"
    /\ graphFile = <<>> /\ candFile = <<>> /\ argK = 0 /\ dryRun = FALSE /\ clockYear = 0
    /\ graph = <<>> /\ candidates = <<>> /\ relevantIngest = <<>>
    /\ tokenized = <<>> /\ vocab = <<>> /\ matrix = <<>> /\ k = 0
    /\ clusterAssignments = <<>> /\ raw2d = <<>>
    /\ counts = <<>> /\ centroids = <<>> /\ assignments = <<>>
    /\ points2dNeat = <<>>
    /\ nodesOut = <<>> /\ clustersOut = <<>>
    /\ kmeansMemo = EmptyMemo /\ pcaMemo = EmptyMemo
    /\ FilterIdle
    /\ IngestIdle
    /\ prev = <<>>

EmitNext == Compose \/ Emit

SpecEmit == EmitInit /\ [][EmitNext]_vars

-----------------------------------------------------------------------------
(* ingest-papers.mjs: fetchPaper, fetchFeed and the feed loop of run().  A   *)
(* feed answers with the items its text parses to.                           *)

\* the statuses a request may be answered with; only 200 is res.ok
Statuses == {200, 404, 429, 500}

feedLimit == 50

\* `source.urls || [source.url]`
Urls(source) == IF "urls" \in DOMAIN source THEN source.urls ELSE <<source.url>>

\* `.filter((item) => item.title).slice(0, feedLimit)`
FeedItems(items) ==
    LET titled == SelectSeq(items, LAMBDA it : StrOrEmpty(it, "title") # <<>>)
    IN  SubSeq(titled, 1, Min2(feedLimit, Len(titled)))

\* fetchPaper, lines 76-101: one request and what follows from its answer
PaperRequest ==
    /\ ingestPc = "fetchPaper"
    /\ \E status \in Statuses :
          /\ answers' = Append(answers, status)
          /\ IF status = 429 /\ attempt < 3
             THEN /\ sleeps' = Append(sleeps, 1500 * (attempt + 1))
                  /\ attempt' = attempt + 1
                  /\ UNCHANGED ingestPc
             ELSE /\ ingestPc' = IF status # 200 THEN "paperThrew" ELSE "paperReturned"
                  /\ UNCHANGED <<sleeps, attempt>>
    /\ UNCHANGED <<envVars, pc, docVars, clusterVars, mergeVars, outVars, libVars, filterVars, prev,
                   isDryRun, sources, sourceIdx, urlIdx, lastError, returned, fetched, feedLog>>

\* fetchFeed, lines 353-384: the request to one url of the source and what
\* follows from its answer
FeedRequest ==
    /\ ingestPc = "fetchFeed"
    /\ urlIdx <= Len(Urls(sources[sourceIdx]))
    /\ \E status \in Statuses :
          /\ answers' = Append(answers, status)
          /\ IF status = 404
             THEN /\ lastError' = 404
                  /\ urlIdx' = urlIdx + 1
                  /\ UNCHANGED <<ingestPc, attempt, sleeps, returned>>
             ELSE IF status = 429 /\ attempt < 2
             THEN /\ sleeps' = Append(sleeps, 1200 * (attempt + 1))
                  /\ attempt' = attempt + 1
                  /\ urlIdx' = 1
                  /\ lastError' = 0
                  /\ UNCHANGED <<ingestPc, returned>>
             ELSE IF status # 200
             THEN /\ lastError' = status
                  /\ urlIdx' = urlIdx + 1
                  /\ UNCHANGED <<ingestPc, attempt, sleeps, returned>>
             ELSE /\ returned' = FeedItems(sources[sourceIdx].items)
                  /\ ingestPc' = "feedReturned"
                  /\ UNCHANGED <<attempt, urlIdx, lastError, sleeps>>
    /\ UNCHANGED <<envVars, pc, docVars, clusterVars, mergeVars, outVars, libVars, filterVars, prev,
                   isDryRun, sources, sourceIdx, fetched, feedLog>>

\* fetchFeed, lines 386-410: the request to the htmlUrl of the source
FeedHtml ==
    /\ ingestPc = "fetchFeed"
    /\ urlIdx > Len(Urls(sources[sourceIdx]))
    /\ "htmlUrl" \in DOMAIN sources[sourceIdx]
    /\ \E status \in Statuses :
          /\ answers' = Append(answers, status)
          /\ IF status = 200
             THEN /\ returned' = FeedItems(sources[sourceIdx].htmlItems)
                  /\ ingestPc' = "feedReturned"
             ELSE /\ ingestPc' = "feedThrew"
                  /\ UNCHANGED returned
    /\ UNCHANGED <<envVars, pc, docVars, clusterVars, mergeVars, outVars, libVars, filterVars, prev,
                   isDryRun, sources, sourceIdx, attempt, urlIdx, lastError, sleeps, fetched, feedLog>>

\* fetchFeed, line 412, for a source without htmlUrl
FeedGiveUp ==
    /\ ingestPc = "fetchFeed"
    /\ urlIdx > Len(Urls(sources[sourceIdx]))
    /\ "htmlUrl" \notin DOMAIN sources[sourceIdx]
    /\ ingestPc' = "feedThrew"
    /\ UNCHANGED <<envVars, pc, docVars, clusterVars, mergeVars, outVars, libVars, filterVars, prev,
                   isDryRun, sources, sourceIdx, attempt, urlIdx, lastError, answers, sleeps, returned,
                   fetched, feedLog>>

\* sources of the list feedSources() returns, in its order, each with the
\* items its feed serves (and its news page, for a source with htmlUrl)
feedSources == <<
    [label |-> "OpenAI Blog", url |-> "https://openai.com/blog/rss.xml",
     items |-> CandidateItems],
    [label |-> "Anthropic Blog", urls |-> <<"https://anthropic.com/blog/rss.xml">>,
     htmlUrl |-> "https://www.anthropic.com/news",
     items |-> <<>>, htmlItems |-> <<CandidateItems[1]>>],
    [label |-> "Google AI Blog",
     urls |-> <<"https://blog.google/technology/ai/rss/",
                "http://googleaiblog.blogspot.com/atom.xml">>,
     items |-> <<CandidateItems[3], [id |-> "untitled", summary |-> <<"H","u","m","a","n","-","A","I"," ","t","e","a","m","i","n","g">>],
                 CandidateItems[2]>>],
    [label |-> "Manus.ai", urls |-> <<>>, items |-> <<>>] >>

FeedSourceKinds == {feedSources[i] : i \in DOMAIN feedSources}

\* run(), line 472: the loop takes the next source and calls fetchFeed
FeedCall ==
    /\ ingestPc = "feeds"
    /\ sourceIdx <= Len(sources)
    /\ ingestPc' = "fetchFeed"
    /\ attempt' = 0 /\ urlIdx' = 1 /\ lastError' = 0
    /\ answers' = <<>> /\ sleeps' = <<>> /\ returned' = <<>>
    /\ UNCHANGED <<envVars, pc, docVars, clusterVars, mergeVars, outVars, libVars, filterVars, prev,
                   isDryRun, sources, sourceIdx, fetched, feedLog>>

\* a catch that leaves the loop
FeedFailedMutant ==
    /\ ingestPc = "feedThrew"
    /\ feedLog' = Append(feedLog, [label |-> sources[sourceIdx].label, failed |-> TRUE])
    /\ sourceIdx' = Len(sources) + 1
    /\ ingestPc' = "feeds"
    /\ UNCHANGED <<envVars, pc, docVars, clusterVars, mergeVars, outVars, libVars, filterVars, prev,
                   isDryRun, sources, attempt, urlIdx, lastError, answers, sleeps, returned,
                   fetched>>

\* run(), lines 474-483: fetchFeed returned
FeedOk ==
    /\ ingestPc = "feedReturned"
    /\ fetched' = fetched \o SelectSeq(returned, ingest_isHumanAICollabRelevant)
    /\ feedLog' = Append(feedLog, [label |-> sources[sourceIdx].label, failed |-> FALSE,
                                   items |-> returned])
    /\ sleeps' = IF isDryRun THEN sleeps ELSE Append(sleeps, 700)
    /\ sourceIdx' = sourceIdx + 1
    /\ ingestPc' = "feeds"
    /\ UNCHANGED <<envVars, pc, docVars, clusterVars, mergeVars, outVars, libVars, filterVars, prev,
                   isDryRun, sources, attempt, urlIdx, lastError, answers, returned>>

\* run(), lines 484-486: fetchFeed threw
FeedFailed ==
    /\ ingestPc = "feedThrew"
    /\ feedLog' = Append(feedLog, [label |-> sources[sourceIdx].label, failed |-> TRUE])
    /\ sourceIdx' = sourceIdx + 1
    /\ ingestPc' = "feeds"
    /\ UNCHANGED <<envVars, pc, docVars, clusterVars, mergeVars, outVars, libVars, filterVars, prev,
                   isDryRun, sources, attempt, urlIdx, lastError, answers, sleeps, returned,
                   fetched>>

\* run(), lines 489-491: after the loop; updatedAt, which merge-graph.mjs
\* does not read, is left out of the store
FeedsWrite ==
    /\ ingestPc = "feeds"
    /\ sourceIdx > Len(sources)
    /\ candFile' = IF isDryRun THEN candFile ELSE [state |-> "ok", items |-> fetched]
    /\ ingestPc' = "ingestDone"
    /\ UNCHANGED <<graphFile, argK, dryRun, clockYear, pc, docVars, clusterVars, mergeVars,
                   outVars, libVars, filterVars, prev,
                   isDryRun, sources, sourceIdx, attempt, urlIdx, lastError, answers, sleeps,
                   returned, fetched, feedLog>>

-----------------------------------------------------------------------------
(* fetchPaper and fetchFeed on their own *)

RetryInit ==
    /\ \/ ingestPc = "fetchPaper" /\ sources = <<>> /\ sourceIdx = 0 /\ urlIdx = 0
       \/ /\ ingestPc = "fetchFeed"
          /\ sources \in {<<s>> : s \in FeedSourceKinds}
          /\ sourceIdx = 1
          /\ urlIdx = 1
    /\ attempt = 0 /\ lastError = 0
    /\ answers = <<>> /\ sleeps = <<>>
    /\ returned = <<>> /\ fetched = <<>> /\ feedLog = <<>>
    /\ isDryRun = FALSE
    /\ graphFile = <<>> /\ candFile = <<>> /\ argK = 0 /\ dryRun = FALSE /\ clockYear = 0
    /\ pc = "idle"
    /\ RunIdle
    /\ kmeansMemo = EmptyMemo /\ pcaMemo = EmptyMemo
    /\ FilterIdle
    /\ prev = <<>>

RetryNext == PaperRequest \/ FeedRequest \/ FeedHtml \/ FeedGiveUp

SpecRetry == RetryInit /\ [][RetryNext]_vars

-----------------------------------------------------------------------------
(* main() when feed items already in the graph store are in the candidate   *)
(* store again, under the same ids and titles and with a newer summary       *)

\* the summary the feed now gives
RefetchedSummary == <<"H","u","m","a","n","-","A","I"," ","t","e","a","m","i","n","g">>

RefetchedItems ==
    [i \in 1..MaxRefetched |->
        [id |-> GraphNodes[i].id,
         title |-> GraphNodes[i].title,
         summary |-> RefetchedSummary]]

RefetchInit ==
    /\ graphFile = [clusters |-> <<>>, nodes |-> SubSeq(GraphNodes, 1, MaxRefetched)]
    /\ candFile \in {[state |-> "ok", items |-> s] :
                         s \in SubSeqsUpTo(RefetchedItems, MaxRefetched)}
    /\ argK \in 1..MaxK
    /\ dryRun \in BOOLEAN
    /\ clockYear = 2025
    /\ pc = "load"
    /\ RunIdle
    /\ kmeansMemo = EmptyMemo /\ pcaMemo = EmptyMemo
    /\ FilterIdle
    /\ IngestIdle
    /\ prev = <<>>

SpecRefetch == RefetchInit /\ [][Next]_vars

-----------------------------------------------------------------------------
(* The feed loop of run(), for up to MaxSources of the sources *)

FeedsInit ==
    /\ ingestPc = "feeds"
    /\ sources \in SubSeqsUpTo(feedSources, MaxSources)
    /\ sourceIdx = 1
    /\ isDryRun \in BOOLEAN
    /\ candFile \in {[state |-> "absent", items |-> <<>>],
                     [state |-> "ok", items |-> SubSeq(CandidateItems, 1, 1)]}
    /\ attempt = 0 /\ urlIdx = 0 /\ lastError = 0
    /\ answers = <<>> /\ sleeps = <<>>
    /\ returned = <<>> /\ fetched = <<>> /\ feedLog = <<>>
    /\ graphFile = <<>> /\ argK = 0 /\ dryRun = FALSE /\ clockYear = 0
    /\ pc = "idle"
    /\ RunIdle
    /\ kmeansMemo = EmptyMemo /\ pcaMemo = EmptyMemo
    /\ FilterIdle
    /\ prev = <<>>

FeedsNext ==
    FeedCall \/ FeedRequest \/ FeedHtml \/ FeedGiveUp \/ FeedOk \/ FeedFailed \/ FeedsWrite

SpecFeeds == FeedsInit /\ [][FeedsNext]_vars

-----------------------------------------------------------------------------
(* Properties *)

\* the set of the elements of a sequence
Range(s) == {s[i] : i \in 1..Len(s)}

\* main() has the result of mergeSmallClusters
Merged == pc \in {"label", "compose", "emit", "finish", "done"}

\* C3 -- dense id renumbering: the cluster indices returned by
\* mergeSmallClusters are exactly 0..k'-1, every one of them used, the
\* returned k is k', and k' is at most the k handed to kmeans.
DenseRenumbering ==
    Merged =>
        /\ Range(mergedAssignments) = 0..(mergedK - 1)
        /\ mergedK <= k

\* a merge emptied cluster 0, and the survivor, cluster 1, became cluster 0
DenseRenumberingWitness ==
    /\ pc = "compose"
    /\ clusterAssignments[1] = 0
    /\ assignments[1] = 1
    /\ Range(mergedAssignments) = {0}

InViewBox(p) ==
    /\ Px(viewBox.xMin) <= p[1] /\ p[1] <= Px(viewBox.xMax)
    /\ Px(viewBox.yMin) <= p[2] /\ p[2] <= Px(viewBox.yMax)

\* C6 -- viewport containment: every embedding handed to the output nodes
\* (points2dNeat[i]) lies in the viewBox, 80..920 by 60..640.
ViewportContainment ==
    pc = "emit" => \A i \in 1..Len(points2dNeat) : InViewBox(points2dNeat[i])

\* some phrase of the list, lower-cased, occurs in the lower-cased title,
\* a space and the lower-cased summary of the item
PhraseOccurs(it) ==
    LET title == IF "title" \in DOMAIN it THEN toLowerCase(it.title) ELSE <<>>
        summary == IF "summary" \in DOMAIN it THEN toLowerCase(it.summary) ELSE <<>>
        text == title \o <<" ">> \o summary
    IN  \E p \in 1..Len(HUMAN_AI_PHRASES) :
            \E from \in 1..Len(text) :
                LET to == from + Len(HUMAN_AI_PHRASES[p]) - 1
                IN  /\ to <= Len(text)
                    /\ SubSeq(text, from, to) = toLowerCase(HUMAN_AI_PHRASES[p])

AcceptedExample == <<"B","u","i","l","d","i","n","g"," ","T","r","u","s","t"," ","i","n"," ","H","u","m","a","n","-","A","I"," ","T","e","a","m","i","n","g">>
RejectedExample == <<"Q","u","a","r","t","e","r","l","y"," ","E","a","r","n","i","n","g","s"," ","R","e","p","o","r","t">>

\* C10 -- relevance filter: isHumanAICollabRelevant(item) is true exactly
\* when a phrase of the list, lower-cased, is a substring of the lower-cased
\* title + " " + summary (a missing one read as empty); the title "Building
\* Trust in Human-AI Teaming" is accepted, "Quarterly Earnings Report" is not.
RelevanceFilterCorrect ==
    filterPc = "returned" =>
        /\ relevant <=> PhraseOccurs(item)
        /\ item = [id |-> "x", title |-> AcceptedExample] => relevant
        /\ item = [id |-> "x", title |-> RejectedExample] => ~relevant

\* the filter accepted the example title through the phrase "teaming"
RelevanceFilterWitness ==
    /\ filterPc = "returned"
    /\ item = [id |-> "x", title |-> AcceptedExample]
    /\ relevant

-----------------------------------------------------------------------------
(* Properties of a whole run *)

\* nodesOut and clustersOut hold the output of the run
Emitted == pc \in {"finish", "done"}

\* the fields of a node other than cluster and embedding
Payload(node) == [f \in DOMAIN node \ {"cluster", "embedding"} |-> node[f]]

\* the number of nodes of `nodes` in cluster cid
MemberCount(nodes, cid) == Cardinality({r \in 1..Len(nodes) : nodes[r].cluster = cid})

\* relevantIngest holds, from the moment it is set, the candidates that pass
\* the relevance filter, in the order of the candidate store
FilterApplied ==
    pc = "vectorize" =>
        relevantIngest = SelectSeq(candidates.items, isHumanAICollabRelevant)

\* the corpus is the existing nodes followed by the candidates `passing`
CorpusIs(passing) ==
    /\ Len(allDocs) = Len(graph.nodes) + Len(passing)
    /\ \A i \in 1..Len(graph.nodes) :
           allDocs[i].origin = "graph" /\ allDocs[i].payload = graph.nodes[i]
    /\ \A i \in 1..Len(passing) :
           /\ allDocs[Len(graph.nodes) + i].origin = "ingest"
           /\ allDocs[Len(graph.nodes) + i].id = passing[i].id

\* C1 -- minimum cluster size: in the output of a run every cluster of the
\* clusters list has at least MIN_CLUSTER_SIZE of the output nodes, unless
\* the output is a single cluster of fewer than MIN_CLUSTER_SIZE nodes
MinimumClusterSize ==
    Emitted =>
        \/ Len(clustersOut) = 1 /\ Len(nodesOut) < MIN_CLUSTER_SIZE
        \/ \A c \in 1..Len(clustersOut) :
               MemberCount(nodesOut, clustersOut[c].id) >= MIN_CLUSTER_SIZE

\* C2 -- partition completeness: the corpus is the existing nodes followed by
\* the candidates that pass the filter; every document has one cluster, which
\* is one of the clusters list; and every document that is the first of its
\* id is in the output, in its cluster
PartitionCompleteness ==
    /\ FilterApplied
    /\ Emitted =>
        /\ CorpusIs(relevantIngest)
        /\ DOMAIN mergedAssignments = DOMAIN allDocs
        /\ \A i \in 1..Len(allDocs) :
               \E c \in 1..Len(clustersOut) :
                   clustersOut[c].id = ClusterId(mergedAssignments[i])
        /\ \A i \in 1..Len(allDocs) :
               \/ \E j \in 1..(i - 1) : allDocs[j].id = allDocs[i].id
               \/ \E r \in 1..Len(nodesOut) :
                      /\ Payload(nodesOut[r]) = Payload(allDocs[i].payload)
                      /\ nodesOut[r].cluster = ClusterId(mergedAssignments[i])
        /\ \A r \in 1..Len(nodesOut) :
               \E i \in 1..Len(allDocs) : nodesOut[r].id = allDocs[i].id

\* a run that left out a candidate the filter rejects and a document whose
\* id was taken, and merged the clusters of the others
PartitionCompletenessWitness ==
    /\ Emitted
    /\ Len(relevantIngest) < Len(candidates.items)
    /\ Len(nodesOut) < Len(allDocs)
    /\ Len(nodesOut) > 3
    /\ mergedK < k

\* every id of an existing node or of a candidate of `passing` is the id of
\* exactly one output node
OneNodeEach(passing) ==
    \A id \in {graph.nodes[i].id : i \in 1..Len(graph.nodes)}
              \cup {passing[i].id : i \in 1..Len(passing)} :
        Cardinality({r \in 1..Len(nodesOut) : nodesOut[r].id = id}) = 1

\* where a candidate of `passing` has the id of an existing node, the output
\* node of that id has the fields and values of the existing node
ExistingWins(passing) ==
    \A i \in 1..Len(graph.nodes), j \in 1..Len(passing) :
        graph.nodes[i].id = passing[j].id =>
            \A r \in 1..Len(nodesOut) :
                nodesOut[r].id = graph.nodes[i].id =>
                    Payload(nodesOut[r]) = Payload(graph.nodes[i])

\* C4 -- identifier uniqueness, existing wins: the ids of the output nodes
\* differ from one another; every id of an existing node or of a candidate
\* that passes the filter is the id of exactly one output node; and where a
\* candidate has the id of an existing node the output node is the existing one
IdentifierUniqueness ==
    /\ FilterApplied
    /\ Emitted =>
        /\ \A r1, r2 \in 1..Len(nodesOut) :
               nodesOut[r1].id = nodesOut[r2].id => r1 = r2
        /\ OneNodeEach(relevantIngest)
        /\ ExistingWins(relevantIngest)

\* a run in which a candidate that passes the filter has the id of an
\* existing node, and what it would have brought differs from that node
IdentifierUniquenessWitness ==
    /\ Emitted
    /\ Len(nodesOut) = Len(allDocs) - 1
    /\ \E i \in 1..Len(graph.nodes), j \in 1..Len(relevantIngest) :
           /\ graph.nodes[i].id = relevantIngest[j].id
           /\ Payload(ingestItemToDoc(relevantIngest[j], clockYear).payload)
                  # Payload(graph.nodes[i])

\* C5 -- payload passthrough: every existing node has an output node with
\* the same fields and values, cluster and embedding aside, and with no
\* other field than those and cluster and embedding
PayloadPassthrough ==
    Emitted =>
        \A i \in 1..Len(graph.nodes) :
            \E r \in 1..Len(nodesOut) :
                /\ nodesOut[r].id = graph.nodes[i].id
                /\ Payload(nodesOut[r]) = Payload(graph.nodes[i])
                /\ DOMAIN nodesOut[r] = DOMAIN graph.nodes[i] \cup {"cluster", "embedding"}

\* a run whose store has a node with a cluster and an embedding that the run
\* replaces and a node with neither, the two with fields of their own
PayloadPassthroughWitness ==
    /\ Emitted
    /\ \E r \in 1..Len(nodesOut) :
           /\ nodesOut[r].id = graph.nodes[1].id
           /\ nodesOut[r].year = graph.nodes[1].year
           /\ nodesOut[r].cluster # graph.nodes[1].cluster
           /\ nodesOut[r].embedding # graph.nodes[1].embedding
    /\ \E r \in 1..Len(nodesOut) :
           /\ nodesOut[r].id = graph.nodes[2].id
           /\ "cluster" \notin DOMAIN graph.nodes[2]
           /\ nodesOut[r].citation = graph.nodes[2].citation

\* the steps of the pipeline have all left their result
Executed ==
    /\ Len(allDocs) = Len(graph.nodes) + Len(relevantIngest)
    /\ Len(matrix) = Len(allDocs)
    /\ Len(clusterAssignments) = Len(allDocs)
    /\ Len(points2d) = Len(allDocs)
    /\ Len(mergedAssignments) = Len(allDocs)
    /\ Len(clusterLabelResults) = mergedK
    /\ Len(points2dNeat) = Len(allDocs)
    /\ Len(nodesOut) > 0
    /\ Len(clustersOut) = mergedK

\* C8 -- dry run: with --dry-run the store is at every step of the run what
\* the run read, and the run has gone through all its steps when it returns
DryRunLeavesStore ==
    dryRun =>
        /\ pc # "load" => graphFile = graph
        /\ pc = "done" => Executed

\* a dry run has returned, with nodes other than those of the store
DryRunLeavesStoreWitness ==
    /\ dryRun
    /\ pc = "done"
    /\ Executed
    /\ nodesOut # graphFile.nodes
    /\ mergedK < k

-----------------------------------------------------------------------------
(* Properties of two runs in a row *)

\* the labels of a clusters list
Labels(clusters) == [c \in 1..Len(clusters) |-> clusters[c].label]

\* the run is the second, and read what the first read
SameInputs ==
    /\ prev # <<>>
    /\ pc \notin {"load"}
    /\ graph = prev.graph
    /\ candFile = prev.candFile
    /\ argK = prev.argK

\* C7 -- determinism: a second run that reads the store, the candidates and
\* the k the first read gives every document the cluster the first gave it
\* and gives the clusters the labels the first gave them
Determinism ==
    SameInputs /\ Emitted =>
        /\ mergedAssignments = prev.mergedAssignments
        /\ Labels(clusterLabelResults) = Labels(prev.clusterLabelResults)
        /\ Labels(clustersOut) = Labels(prev.clustersOut)

\* a second run on the inputs of the first in another year, a year that
\* shows in the nodes, with two clusters
DeterminismWitness ==
    /\ SameInputs
    /\ pc = "done"
    /\ clockYear # prev.clockYear
    /\ nodesOut # prev.nodesOut
    /\ Len(clustersOut) = 2
    /\ Len(allDocs) > Len(graph.nodes)

\* the run is the second, the first wrote its nodes, and this one read them
\* and no candidates
FedBack ==
    /\ prev # <<>>
    /\ ~prev.dryRun
    /\ Emitted
    /\ graph.nodes = prev.nodesOut
    /\ candidates.items = <<>>

\* C9 -- dedup idempotence: a run on the nodes a run wrote and on no
\* candidates puts out nodes with the same ids and, id by id, the same
\* fields and values, cluster and embedding aside
DedupIdempotence ==
    FedBack =>
        /\ {nodesOut[r].id : r \in 1..Len(nodesOut)}
               = {prev.nodesOut[r].id : r \in 1..Len(prev.nodesOut)}
        /\ Len(nodesOut) = Len(prev.nodesOut)
        /\ \A r \in 1..Len(nodesOut) : \A q \in 1..Len(prev.nodesOut) :
               nodesOut[r].id = prev.nodesOut[q].id =>
                   Payload(nodesOut[r]) = Payload(prev.nodesOut[q])

\* the first run dropped a candidate for its id and took one in; the second
\* keeps a node the relevance filter would reject, and clusters otherwise
DedupIdempotenceWitness ==
    /\ FedBack
    /\ pc = "done"
    /\ \E i \in 1..Len(prev.graph.nodes), j \in 1..Len(prev.candFile.items) :
           prev.graph.nodes[i].id = prev.candFile.items[j].id
    /\ Len(prev.nodesOut) > Len(prev.graph.nodes)
    /\ \E r \in 1..Len(nodesOut) : ~isHumanAICollabRelevant(nodesOut[r])
    /\ mergedAssignments # prev.mergedAssignments

\* C11 -- the ingestion step and the merge step apply the same relevance
\* filter: the two isHumanAICollabRelevant give the same verdict on every
\* item of the feeds, and the candidates ingestion persisted all pass the
\* merge step's filter, in the same order
SameRelevanceFilter ==
    pc = "refiltered" =>
        /\ \A i \in 1..Len(feed) :
               ingest_isHumanAICollabRelevant(feed[i]) = isHumanAICollabRelevant(feed[i])
        /\ candidates.items = candFile.items
        /\ relevantIngest = candFile.items

SameRelevanceFilterWitness ==
    /\ pc = "refiltered"
    /\ Len(candFile.items) > 0
    /\ Len(candFile.items) < Len(feed)
    /\ relevantIngest = candFile.items

\* C12 -- cluster-count clamping: the k handed to kmeans is the least of
\* the requested k, the number of documents and 20; it is a valid cluster
\* count (at least 1, at most the number of documents, at most 20) also when
\* the requested k is larger than the corpus
ClusterCountClamping ==
    pc = "clamped" =>
        /\ k \in {argK, Len(allDocs), 20}
        /\ k <= argK /\ k <= Len(allDocs) /\ k <= 20
        /\ k >= 1

ClusterCountClampingWitness ==
    /\ pc = "clamped"
    /\ argK > Len(allDocs)
    /\ Len(allDocs) > 20
    /\ k = 20

\* the ids of a list of nodes
Ids(nodes) == {nodes[i].id : i \in 1..Len(nodes)}

\* C13 -- missing candidate store: a run whose candidate store is absent
\* does not fail; it goes on with no candidates, so the corpus is the
\* documents of the graph store and the output nodes are those documents
MissingCandidateStore ==
    (GraphReadable(graphFile) /\ candFile.state = "absent") =>
        /\ pc # "failed"
        /\ pc # "load" =>
              /\ candidates.items = <<>>
              /\ Len(allDocs) = Len(graph.nodes)
              /\ \A i \in 1..Len(allDocs) :
                     allDocs[i].origin = "graph" /\ allDocs[i].id = graph.nodes[i].id
        /\ Emitted =>
              /\ Len(nodesOut) = Len(graph.nodes)
              /\ Ids(nodesOut) = Ids(graph.nodes)

MissingCandidateStoreWitness ==
    /\ candFile.state = "absent"
    /\ pc = "done"
    /\ Len(graph.nodes) = 4
    /\ Len(nodesOut) = 4
    /\ ~dryRun
    /\ graphFile.nodes = nodesOut

\* C14 -- malformed input is fatal: a run whose graph store is missing or
\* unparsable, or whose candidate store is there and unparsable, stops at
\* the load with a non-zero exit: it produces no clustering and writes nothing
MalformedInputFatal ==
    (~GraphReadable(graphFile) \/ candFile.state = "malformed") =>
        /\ pc \in {"load", "failed"}
        /\ nodesOut = <<>> /\ clustersOut = <<>>

\* C15 -- TF-IDF matrix shape and sign: tfIdfMatrix gives one vector per
\* document, each as long as the vocabulary and in its order (the entry of a
\* term is positive where the document has the term and 0 where it has
\* not); no entry is negative; a document without tokens gets the zero vector
TfIdfShapeAndSign ==
    pc = "vectorized" =>
        /\ Len(matrix) = Len(tokenized)
        /\ \A d \in 1..Len(matrix) :
              /\ Len(matrix[d]) = Len(vocab)
              /\ \A i \in 1..Len(vocab) :
                    /\ matrix[d][i] >= 0
                    /\ matrix[d][i] > 0 <=> InSeq(vocab[i], tokenized[d])
              /\ tokenized[d] = <<>> => \A i \in 1..Len(vocab) : matrix[d][i] = 0

TfIdfShapeAndSignWitness ==
    /\ pc = "vectorized"
    /\ Len(vocab) = 2
    /\ \E d \in 1..Len(matrix) : tokenized[d] = <<>> /\ matrix[d] = <<0, 0>>
    /\ \E d \in 1..Len(matrix) : matrix[d][1] > 0 /\ matrix[d][2] = 0
    /\ \E d \in 1..Len(matrix) : matrix[d][1] > 0 /\ matrix[d][2] > 0

\* idf[i] of tfIdfMatrix for the corpus and vocabulary of the state
IdfOfTerm(i) == Idf(Len(tokenized), DocFreq(tokenized, vocab[i]))

\* the terms of the vocabulary that every document has
InEveryDocument(i) == DocFreq(tokenized, vocab[i]) = Len(tokenized)

\* C16 -- IDF floor, as the code has it: the IDF of every vocabulary term is
\* strictly positive; a term present in every document has IDF
\* ln(1) + 1 = 1 (1000 thousandths), which is the smallest IDF a term can
\* have; the vector of a document that is that one term shows it
IdfFloor ==
    pc = "vectorized" =>
        \A i \in 1..Len(vocab) :
            /\ IdfOfTerm(i) > 0
            /\ IdfOfTerm(i) >= 1000
            /\ InEveryDocument(i) => IdfOfTerm(i) = 1000
            /\ \A d \in 1..Len(tokenized) :
                   tokenized[d] = <<vocab[i]>> => matrix[d][i] = IdfOfTerm(i)

IdfFloorWitness ==
    /\ pc = "vectorized"
    /\ Len(tokenized) = 3
    /\ \E i \in 1..Len(vocab) :
           /\ InEveryDocument(i)
           /\ \E d \in 1..Len(tokenized) : tokenized[d] = <<vocab[i]>> /\ matrix[d][i] = 1000
    /\ \E i \in 1..Len(vocab) : ~InEveryDocument(i) /\ IdfOfTerm(i) > 1000

\* C16 as stated: a term present in every document has IDF ln(2), 693
\* thousandths, and no term has a smaller one
IdfFloorLn2 ==
    pc = "vectorized" =>
        \A i \in 1..Len(vocab) :
            /\ IdfOfTerm(i) > 0
            /\ IdfOfTerm(i) >= LnMilli[2]
            /\ InEveryDocument(i) => IdfOfTerm(i) = LnMilli[2]

\* the number of documents that a gives cluster c
AssignedCount(a, c) == Cardinality(Members(a, c))

\* the clusters that have documents under a
NonEmptyClusters(a) == {a[i] : i \in 1..Len(a)}

\* C17 -- merge target selection: a merge step moves all members of one
\* undersized cluster to one other non-empty cluster, and no other
\* non-empty cluster has its centroid nearer (squared Euclidean distance) to
\* the centroid of the undersized one, the centroids being the means of the
\* positions of the members the clusters have at that step
MergeTargetNearest ==
    [][(pc = "mergeLoop" /\ pc' = "mergeLoop") =>
        LET fresh == CentroidsOf(points2d, assignments, ClusterCount(clusterAssignments))
            live == NonEmptyClusters(assignments)
        IN  \E small \in live : \E target \in live \ {small} :
                /\ AssignedCount(assignments, small) < MIN_CLUSTER_SIZE
                /\ \A i \in 1..Len(assignments) :
                       assignments'[i] = IF assignments[i] = small THEN target
                                         ELSE assignments[i]
                /\ \A c2 \in live \ {small} :
                       SqDist(fresh[small], fresh[target]) <= SqDist(fresh[small], fresh[c2])
      ]_vars

\* C18 -- unresolvable small cluster: mergeSmallClusters returns an
\* assignment for every input (a cluster id below the new k for every
\* document); an undersized cluster is left in it only when there was no
\* merge target, the undersized cluster being the only non-empty one, so
\* that every non-empty cluster is below the threshold
UnresolvedSmallCluster ==
    pc = "label" =>
        /\ Len(mergedAssignments) = Len(clusterAssignments)
        /\ \A i \in 1..Len(mergedAssignments) : mergedAssignments[i] \in 0..(mergedK - 1)
        /\ (\E c \in NonEmptyClusters(mergedAssignments) :
                AssignedCount(mergedAssignments, c) < MIN_CLUSTER_SIZE)
           => /\ Cardinality(NonEmptyClusters(mergedAssignments)) = 1
              /\ \A c \in NonEmptyClusters(mergedAssignments) :
                     AssignedCount(mergedAssignments, c) < MIN_CLUSTER_SIZE

UnresolvedSmallClusterWitness ==
    /\ pc = "label"
    /\ Len(mergedAssignments) = 2
    /\ mergedK = 1
    /\ Cardinality(NonEmptyClusters(clusterAssignments)) = 2
    /\ AssignedCount(mergedAssignments, 0) = 2

\* the number of clusters that counts gives members
NonEmptyCount(cnts) == Cardinality({c \in DOMAIN cnts : cnts[c] > 0})

\* C19 -- the merge loop terminates: every iteration that does not leave the
\* loop empties one non-empty cluster and one at least stays, so the loop
\* is left after at most (clusters non-empty at the start - 1) merges
MergeLoopTerminates ==
    /\ [][(pc = "mergeLoop" /\ pc' = "mergeLoop") =>
            NonEmptyCount(counts') = NonEmptyCount(counts) - 1]_vars
    /\ [](pc = "mergeLoop" =>
            /\ NonEmptyCount(counts) >= 1
            /\ NonEmptyCount(counts) <= Cardinality(NonEmptyClusters(clusterAssignments)))
    /\ <>(pc = "label")

MergeLoopTerminatesWitness ==
    /\ pc = "label"
    /\ Cardinality(NonEmptyClusters(clusterAssignments)) = 4
    /\ NonEmptyCount(counts) = 1
    /\ mergedK = 1

\* the index of the first document of cluster c under a
FirstDocument(a, c) == CHOOSE i \in Members(a, c) : \A j \in Members(a, c) : i <= j

\* C20 -- renumbering order: of two clusters that survive the merging, the
\* one whose first document comes earlier in corpus order has the smaller
\* new id
RenumberingByFirstAppearance ==
    Merged =>
        \A A, B \in Range(mergedAssignments) :
            FirstDocument(mergedAssignments, A) < FirstDocument(mergedAssignments, B)
                => A < B

-----------------------------------------------------------------------------
(* Properties of tokenize *)

\* the positions of s from i on that a match of /<[^>]+>/ covers
RECURSIVE TagCovered(_, _)
TagCovered(s, i) ==
    IF TagStart(s, i) = 0 THEN {}
    ELSE (TagStart(s, i)..FirstGt(s, TagStart(s, i) + 1))
         \cup TagCovered(s, FirstGt(s, TagStart(s, i) + 1) + 1)

\* the positions of s from i on that a match of /https?:\/\/\S+/ covers
RECURSIVE UrlCovered(_, _)
UrlCovered(s, i) ==
    IF UrlStart(s, i) = 0 THEN {}
    ELSE (UrlStart(s, i)..(UrlStart(s, i) + UrlMatchLen(s, UrlStart(s, i)) - 1))
         \cup UrlCovered(s, UrlStart(s, i) + UrlMatchLen(s, UrlStart(s, i)))

\* s with the characters inside its HTML tags and its URLs blanked
OutsideTagsAndUrls(s) ==
    [i \in 1..Len(s) |->
        IF i \in TagCovered(s, 1) \cup UrlCovered(s, 1) THEN " " ELSE s[i]]

\* the lower-cased alphanumeric runs of s that are longer than one character
\* and are no stop word, in their order of occurrence, repeats kept
WordsOf(s) == SelectSeq(SplitSpaces(BlankNonAlnum(toLowerCase(s))), KeepToken)

TokenizeReturned == filterPc = "returned" /\ tokenized # <<>>

\* every returned token is lower-case alphanumeric, of length >= 2 and no
\* stop word
TokensWellFormed ==
    TokenizeReturned =>
        \A t \in 1..Len(tokenized[1]) :
            /\ Len(tokenized[1][t]) >= 2
            /\ \A c \in 1..Len(tokenized[1][t]) : IsAlnum(tokenized[1][t][c])
            /\ tokenized[1][t] \notin STOP

\* what is not a string, and the empty string, give no token
NoTokensOfNothing ==
    TokenizeReturned =>
        ((item.typeof # "string" \/ item.value = <<>>) => tokenized[1] = <<>>)

\* the tokens are the words of the text outside its tags and URLs, in order
\* and with their repeats
TokensAreOutsideWords ==
    (TokenizeReturned /\ item.typeof = "string")
        => tokenized[1] = WordsOf(OutsideTagsAndUrls(item.value))

-----------------------------------------------------------------------------
(* Properties of buildVocabulary *)

\* the terms of a corpus
CorpusTerms(docs) == {Flatten(docs)[i] : i \in 1..Len(Flatten(docs))}

\* where a term first appears when the corpus is read document by document
FirstAppearance(docs, t) ==
    CHOOSE i \in 1..Len(Flatten(docs)) :
        /\ Flatten(docs)[i] = t
        /\ \A j \in 1..(i - 1) : Flatten(docs)[j] # t

\* t ranks ahead of u: it is in more documents, or in as many and appears first
RanksAhead(docs, t, u) ==
    \/ DocFreq(docs, t) > DocFreq(docs, u)
    \/ /\ DocFreq(docs, t) = DocFreq(docs, u)
       /\ FirstAppearance(docs, t) < FirstAppearance(docs, u)

\* C22 -- Vocabulary selection: buildVocabulary returns at most maxTerms
\* distinct terms of the corpus, ranked by document frequency in descending
\* order, equal-frequency terms in order of first appearance; a term of the
\* corpus is left out only if maxTerms terms rank ahead of it.
VocabularySelection ==
    filterPc = "returned" =>
        /\ Len(vocab) <= item.maxTerms
        /\ \A i \in 1..Len(vocab) : vocab[i] \in CorpusTerms(item.docs)
        /\ \A i, j \in 1..Len(vocab) :
               i < j => RanksAhead(item.docs, vocab[i], vocab[j])
        /\ \A t \in CorpusTerms(item.docs) \ Range(vocab) :
               Cardinality({u \in CorpusTerms(item.docs) : RanksAhead(item.docs, u, t)})
                   >= item.maxTerms

\* a call that left out a term which is in as many documents as the last
\* term kept, and that ranked a term in more documents ahead of a term with
\* more occurrences
VocabularySelectionWitness ==
    /\ filterPc = "returned"
    /\ Len(vocab) >= 2
    /\ \E t \in CorpusTerms(item.docs) \ Range(vocab) :
           DocFreq(item.docs, t) = DocFreq(item.docs, vocab[Len(vocab)])
    /\ \E i, j \in 1..Len(vocab) :
           /\ i < j
           /\ DocFreq(item.docs, vocab[i]) > DocFreq(item.docs, vocab[j])
           /\ TermCount(Flatten(item.docs), vocab[i]) < TermCount(Flatten(item.docs), vocab[j])

-----------------------------------------------------------------------------
(* Properties of topTermsPerCluster *)

Labelled == pc = "compose" /\ clusterLabelResults # <<>>

\* the adjusted score of term i in cluster c (0-based), up to the positive
\* factor that is the size of the cluster
AdjustedScore(c, i) == TermScore(vocab, matrix, mergedAssignments, mergedK, c, i)

\* the ranked terms of cluster c: the first ten by adjusted score, those of
\* positive score
RankedTerms(c) ==
    TopTerms(vocab, TermScores(vocab, matrix, mergedAssignments, mergedK, c))

\* the terms the label of cluster c is made of
Survivors(c) == TopDeduped(RankedTerms(c), 1, <<>>)

\* t with its first letter in upper case
FirstUpper(t) == [i \in 1..Len(t) |-> IF i = 1 THEN UpperChar(t[i]) ELSE t[i]]

Amp == <<" ", "&", " ">>

FallbackLabel(n) == <<"C","l","u","s","t","e","r"," ">> \o DecimalString(n)

\* C23 -- Label synthesis: the base label of a cluster is its surviving
\* terms, each with its first letter upper-cased, joined by " & " when two or
\* three survive, the single capitalized term when one survives, and
\* "Cluster <n>" exactly when no term has a positive adjusted score; it
\* never has more than 3 segments.
LabelSynthesis ==
    Labelled =>
        \A r \in 1..Len(clusterLabelResults) :
            LET label == clusterLabelResults[r].label
                S == Survivors(r - 1)
            IN  /\ Len(S) = 3 =>
                       label = FirstUpper(S[1]) \o Amp \o FirstUpper(S[2]) \o Amp
                                   \o FirstUpper(S[3])
                /\ Len(S) = 2 => label = FirstUpper(S[1]) \o Amp \o FirstUpper(S[2])
                /\ Len(S) = 1 => label = FirstUpper(S[1])
                /\ (label = FallbackLabel(r))
                       <=> (\A i \in 1..Len(vocab) : AdjustedScore(r - 1, i) <= 0)
                /\ Cardinality({j \in 1..Len(label) : StartsAt(label, Amp, j)}) <= 2

\* a labelling with a cluster of three surviving terms, a cluster of one
\* and a cluster without a term of positive score
LabelSynthesisWitness ==
    /\ Labelled
    /\ \E r \in 1..Len(clusterLabelResults) : Len(Survivors(r - 1)) = 3
    /\ \E r \in 1..Len(clusterLabelResults) :
           Len(Survivors(r - 1)) = 1 /\ clusterLabelResults[r].label = <<"A","i">>
    /\ \E r \in 1..Len(clusterLabelResults) :
           clusterLabelResults[r].label = FallbackLabel(r)

\* t and u are morphological duplicates
Duplicates(t, u) ==
    \/ Len(t) <= Len(u) /\ SubSeq(u, 1, Len(t)) = t
    \/ Len(u) <= Len(t) /\ SubSeq(t, 1, Len(u)) = u
    \/ StripFinalS(t) = StripFinalS(u)

\* the rank of a term among ranked terms
RankOf(top, t) == CHOOSE q \in 1..Len(top) : top[q] = t

-----------------------------------------------------------------------------
(* Properties of the cluster list *)

\* the number of times lever l is listed by the output nodes of cluster cid
LeverOccurrences(cid, l) ==
    Cardinality({<<r, j>> \in (1..Len(nodesOut)) \X (1..3) :
        /\ nodesOut[r].cluster = cid
        /\ "designLevers" \in DOMAIN nodesOut[r]
        /\ j <= Len(nodesOut[r].designLevers)
        /\ nodesOut[r].designLevers[j] = l})

\* the levers the output nodes list
OutputLevers ==
    UNION {Range(nodesOut[r].designLevers) :
           r \in {r2 \in 1..Len(nodesOut) : "designLevers" \in DOMAIN nodesOut[r2]}}

\* the most common levers of cluster cid, those listed twice or more
FocusLevers(cid) ==
    {l \in OutputLevers :
        /\ LeverOccurrences(cid, l) >= 2
        /\ \A l2 \in OutputLevers : LeverOccurrences(cid, l2) <= LeverOccurrences(cid, l)}

SpacesForUnderscores(l) == [i \in 1..Len(l) |-> IF l[i] = "_" THEN " " ELSE l[i]]

\* the number of segments of a label
Segments(label) == Cardinality({j \in 1..Len(label) : StartsAt(label, Amp, j)}) + 1

\* label holds text, whatever the case of the letters
Mentions(label, text) ==
    \E j \in 1..(Len(label) - Len(text) + 1) :
        \A c \in 1..Len(text) : LowerChar(label[j + c - 1]) = LowerChar(text[c])

\* C25 -- Design-focus augmentation: the design focus of a cluster is the
\* most common lever of its output nodes, set only if that lever is listed
\* at least twice; it is put before the base label, capitalized and followed
\* by " & ", exactly when there is a design focus, the base label has fewer
\* than 3 segments and does not mention it in any case of letters; otherwise
\* the label is the base label.
DesignFocusAugmentation ==
    pc = "finish" =>
        \A i \in 1..Len(clustersOut) :
            LET out == clustersOut[i]
                base == clusterLabelResults[i].label
                cid == ClusterId(i - 1)
            IN  /\ ("designFocus" \in DOMAIN out) <=> (FocusLevers(cid) # {})
                /\ "designFocus" \in DOMAIN out =>
                       \E l \in FocusLevers(cid) : out.designFocus = SpacesForUnderscores(l)
                /\ IF /\ "designFocus" \in DOMAIN out
                      /\ Segments(base) < 3
                      /\ ~Mentions(base, out.designFocus)
                   THEN out.label = FirstUpper(out.designFocus) \o Amp \o base
                   ELSE out.label = base

\* an output with a cluster whose design focus is put before its label, and
\* a cluster whose base label, of fewer than 3 segments, mentions its focus
DesignFocusAugmentationWitness ==
    /\ pc = "finish"
    /\ \E i \in 1..Len(clustersOut) :
           /\ "designFocus" \in DOMAIN clustersOut[i]
           /\ clustersOut[i].designFocus = <<"h","u","m","a","n"," ","o","v","e","r","s","i","g","h","t">>
           /\ clustersOut[i].label # clusterLabelResults[i].label
    /\ \E i \in 1..Len(clustersOut) :
           /\ "designFocus" \in DOMAIN clustersOut[i]
           /\ Segments(clusterLabelResults[i].label) < 3
           /\ clustersOut[i].label = clusterLabelResults[i].label

-----------------------------------------------------------------------------
(* Properties of ingest-papers.mjs *)

\* the service has answered 429 to every request of the running call
OnlyTooManyRequests == \A i \in 1..Len(answers) : answers[i] = 429

\* the running call is over
CallOver == ingestPc \in {"paperReturned", "paperThrew", "feedReturned", "feedThrew"}

\* C26 -- Bounded 429 retry: while the service answers 429 to every
\* request, fetchPaper and fetchFeed are attempted at most 3 times in total,
\* every retry comes after a backoff sleep that is longer than the one
\* before, and the call ends with an error.
BoundedRetry ==
    (ingestPc # "idle" /\ OnlyTooManyRequests) =>
        /\ attempt + 1 <= 3
        /\ Len(sleeps) = attempt
        /\ \A i \in 1..(Len(sleeps) - 1) : sleeps[i] < sleeps[i + 1]
        /\ CallOver => ingestPc \in {"paperThrew", "feedThrew"}

-----------------------------------------------------------------------------
(* Properties of a run that may throw *)

\* C27 -- Single final write: a merge run writes the store at most once and
\* only in its last step, with the output of the completed pipeline; no
\* step follows the write or a throw, and every other step, the throw of an
\* earlier step included, leaves the store as it was.
SingleFinalWrite ==
    /\ [][pc # "finish" => graphFile' = graphFile]_vars
    /\ [][pc = "finish" =>
            /\ pc' = "done"
            /\ graphFile' = IF dryRun THEN graphFile
                            ELSE [clusters |-> clustersOut, nodes |-> nodesOut]]_vars
    /\ [][pc \notin {"done", "failed"}]_vars
    /\ [](pc = "failed" /\ graph # <<>> => graphFile = graph)

\* a run that wrote a store other than the one it read
SingleFinalWriteWitness ==
    /\ pc = "done"
    /\ ~dryRun
    /\ graphFile = [clusters |-> clustersOut, nodes |-> nodesOut]
    /\ graphFile # graph

-----------------------------------------------------------------------------
(* Properties of the output when ids come twice *)

\* the entries of the output clusters list with the id a node carries
ClusterEntries(cid) == {j \in DOMAIN clustersOut : clustersOut[j].id = cid}

\* every output node is in exactly one entry of the clusters list
NodesAreInOneCluster ==
    Emitted => \A i \in DOMAIN nodesOut : Cardinality(ClusterEntries(nodesOut[i].cluster)) = 1

\* C28 -- cluster/node referential integrity: in the output, the cluster of
\* every node is the id of exactly one entry of the clusters list, and
\* every entry of the clusters list is the cluster of at least one node, the
\* nodes being those left after the duplicate ids were dropped.
ReferentialIntegrity ==
    Emitted =>
        /\ \A i \in DOMAIN nodesOut :
              Cardinality(ClusterEntries(nodesOut[i].cluster)) = 1
        /\ \A j \in DOMAIN clustersOut :
              \E i \in DOMAIN nodesOut : nodesOut[i].cluster = clustersOut[j].id

-----------------------------------------------------------------------------
(* Properties of mergeSmallClusters as a map of partitions *)

\* document i was, on entry, in a cluster of at least MIN_CLUSTER_SIZE members
InLargeCluster(i) ==
    AssignedCount(clusterAssignments, clusterAssignments[i]) >= MIN_CLUSTER_SIZE

\* C29 -- merging only coarsens the partition: two documents that kmeans
\* put in one cluster get the same cluster index from mergeSmallClusters;
\* the members of a cluster that had at least MIN_CLUSTER_SIZE members on
\* entry are moved by no iteration, and two such clusters are still two
\* clusters in the result.
MergeOnlyCoarsens ==
    /\ [](pc = "label" =>
            \A i, j \in 1..Len(clusterAssignments) :
                /\ clusterAssignments[i] = clusterAssignments[j]
                      => mergedAssignments[i] = mergedAssignments[j]
                /\ (InLargeCluster(i) /\ InLargeCluster(j)
                        /\ clusterAssignments[i] # clusterAssignments[j])
                      => mergedAssignments[i] # mergedAssignments[j])
    /\ [](pc = "mergeLoop" =>
            \A i \in 1..Len(clusterAssignments) :
                InLargeCluster(i) => assignments[i] = clusterAssignments[i])
    /\ [][pc = "mergeLoop" =>
            \A i \in 1..Len(clusterAssignments) :
                InLargeCluster(i) => assignments'[i] = assignments[i]]_vars

\* a cluster of MIN_CLUSTER_SIZE members has taken in the members of another
MergeOnlyCoarsensWitness ==
    /\ pc = "label"
    /\ \E i, j \in 1..Len(clusterAssignments) :
           /\ InLargeCluster(i)
           /\ clusterAssignments[j] # clusterAssignments[i]
           /\ mergedAssignments[j] = mergedAssignments[i]
           /\ mergedAssignments[i] # clusterAssignments[i]

-----------------------------------------------------------------------------
(* Properties of the feed loop *)

\* the relevance-passing items of the sources log[1..n] says succeeded, in
\* the order of the sources
RECURSIVE PassingItems(_, _)
PassingItems(log, n) ==
    IF n = 0 THEN <<>>
    ELSE PassingItems(log, n - 1)
         \o (IF log[n].failed THEN <<>>
             ELSE SelectSeq(log[n].items, ingest_isHumanAICollabRelevant))

\* what fetchFeed may return for a source: the titled items of its feed or
\* of its news page
Served(source) ==
    {FeedItems(source.items)}
    \cup (IF "htmlUrl" \in DOMAIN source THEN {FeedItems(source.htmlItems)} ELSE {})

\* C30 -- feed failure isolation: a source whose fetchFeed throws (no
\* request of it was answered 200, or it has no url to ask) is logged as
\* failed and the loop goes on to the next source with the candidates it
\* had; at the end every source has been tried, in order; the candidate
\* store is written in the one step after the loop and in no other, and
\* not in a dry run; it then holds the relevance-passing items of the
\* sources that succeeded, in source order.
FeedFailureIsolation ==
    /\ [][ingestPc = "feedThrew" =>
            /\ \A a \in 1..Len(answers) : answers[a] # 200
            /\ feedLog' = Append(feedLog, [label |-> sources[sourceIdx].label, failed |-> TRUE])
            /\ sourceIdx' = sourceIdx + 1
            /\ ingestPc' = "feeds"
            /\ fetched' = fetched]_vars
    /\ [][candFile' # candFile =>
            ingestPc = "feeds" /\ ingestPc' = "ingestDone" /\ ~isDryRun]_vars
    /\ [][ingestPc # "ingestDone"]_vars
    /\ [](ingestPc = "ingestDone" =>
            /\ Len(feedLog) = Len(sources)
            /\ \A i \in 1..Len(sources) :
                  /\ feedLog[i].label = sources[i].label
                  /\ ~feedLog[i].failed => feedLog[i].items \in Served(sources[i])
            /\ ~isDryRun =>
                  candFile = [state |-> "ok", items |-> PassingItems(feedLog, Len(feedLog))])

\* the first source failed, the second gave items of which one did not pass,
\* and the store holds the ones that did
FeedFailureIsolationWitness ==
    /\ ingestPc = "ingestDone"
    /\ ~isDryRun
    /\ Len(feedLog) = 2
    /\ feedLog[1].failed
    /\ ~feedLog[2].failed
    /\ candFile.items # <<>>
    /\ Len(candFile.items) < Len(feedLog[2].items)

====
